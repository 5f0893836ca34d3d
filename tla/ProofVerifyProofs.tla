------------------------- MODULE ProofVerifyProofs --------------------------
(***************************************************************************)
(* Proofs about ProofVerify, for keys of any width and any answers of a    *)
(* provider.                                                               *)
(***************************************************************************)
EXTENDS ProofVerify, TLAPS, WellFoundedInduction

\* Loop invariant and result: what the induction carries.
Inv == LoopInv /\ BrokenOnlyAtGaps

\* The part of CasesAssumption about the answer at hand.
Input ==
  /\ Len(proof.contract_proof) \in Nat
  /\ \A j \in 1..Len(proof.contract_proof) :
       proof.contract_proof[j].tag \in {"binary", "edge"}
  /\ proof.contract_data # None /\ proof.contract_data.storage_proofs \notin {None, <<>>} =>
       /\ Len(StorageNodes) \in Nat
       /\ \A j \in 1..Len(StorageNodes) : StorageNodes[j].tag \in {"binary", "edge"}

\* A lowest edge that fits leads from the leaf along the low bits of the key.
LEMMA FitLeads ==
  ASSUME EdgeFits, Node.tag = "edge"
  PROVE  /\ Node.child = Leaf /\ Node.len \in 0..Width
         /\ Node.path = Num(LowBits(Key, Node.len))
BY DEF EdgeFits, NodeHash, EdgeHash, Pedersen

\* An empty part of a proof is chained, whatever the nodes.
LEMMA ChainEmpty ==
  ASSUME NEW nodes, Len(nodes) \in Nat, NEW key, NEW leaf
  PROVE  Chain(nodes, key, leaf, Len(nodes)) /\ Below(nodes, leaf, Len(nodes)) = leaf
BY DEF Chain, Below

\* One more node, tied to the hash below it or a gap, lengthens the chain.
LEMMA ChainStep ==
  ASSUME NEW nodes, NEW l \in 1..Len(nodes), Len(nodes) \in Nat, NEW key, NEW leaf,
         Chain(nodes, key, leaf, l), Gap(nodes, l) \/ Tied(nodes, key, leaf, l)
  PROVE  /\ Chain(nodes, key, leaf, l - 1)
         /\ Below(nodes, leaf, l - 1) = NodeHash(nodes[l])
<1>1. \A j \in ((l - 1) + 1)..Len(nodes) : j = l \/ j \in (l + 1)..Len(nodes) OBVIOUS
<1>2. Chain(nodes, key, leaf, l - 1) BY <1>1 DEF Chain
<1>3. l - 1 # Len(nodes) /\ (l - 1) + 1 = l OBVIOUS
<1>4. QED BY <1>2, <1>3 DEF Below

\* A verification that has ended, or never started, owes nothing but its verdict.
LEMMA EndInv ==
  ASSUME Inv, phase # "end", NEW v \in {"error", "panic"}, End(v)
  PROVE  Inv'
BY DEF Inv, LoopInv, BrokenOnlyAtGaps, End

\* A step of a loop: the node is tied to hold or is a gap, and hold becomes its hash.
LEMMA LoopStep ==
  ASSUME Inv, Input, phase \in {"storage", "contract"}, left > 0,
         Gap(Nodes, left) \/ Tied(Nodes, Key, Leaf, left),
         hold' = NodeHash(Node), left' = left - 1,
         UNCHANGED <<input, phase, verdict>>
  PROVE  Inv'
<1>1. /\ Nodes' = Nodes /\ Key' = Key /\ Leaf' = Leaf
      /\ StorageChained' = StorageChained /\ ContractChained' = ContractChained
  BY DEF input, Nodes, Key, Leaf, StorageNodes, StorageChained, ContractChained
<1>2. left \in 1..Len(Nodes) /\ Len(Nodes) \in Nat
  BY DEF Inv, LoopInv, Input, Nodes
<1>3. Chain(Nodes, Key, Leaf, left) BY DEF Inv, LoopInv
<1>4. Chain(Nodes, Key, Leaf, left - 1) /\ Below(Nodes, Leaf, left - 1) = NodeHash(Node)
  BY <1>2, <1>3, ChainStep DEF Node
<1>5. left' \in 0..Len(Nodes) BY <1>2
<1>6. hold' = Below(Nodes', Leaf', left') /\ Chain(Nodes', Key', Leaf', left')
  BY <1>1, <1>4
<1>7. QED BY <1>1, <1>5, <1>6 DEF Inv, LoopInv, BrokenOnlyAtGaps, input

LEMMA InvInit == Init => Inv /\ Input
<1> SUFFICES ASSUME Init PROVE Inv /\ Input OBVIOUS
<1>1. PICK c \in Cases : claim = c.claim /\ proof = c.proof BY DEF Init
<1>2. Input BY <1>1, CasesAssumption DEF Input, StorageNodes
<1>3. Inv BY DEF Init, Inv, LoopInv, BrokenOnlyAtGaps
<1>4. QED BY <1>2, <1>3

LEMMA InvStep == Inv /\ Input /\ [Next]_vars => Inv' /\ Input'
<1> SUFFICES ASSUME Inv, Input, [Next]_vars PROVE Inv' /\ Input' OBVIOUS
<1>1. UNCHANGED input
  BY DEF Next, vars, input, NoStorageProof, BeginStorage, EdgeStep, EdgeMisfit,
     BinaryStep, BinaryMisfit, StorageRoot, StateRoot, End, Parse
<1>2. Input' BY <1>1 DEF Input, input, StorageNodes
<1>3. CASE NoStorageProof BY <1>2, <1>3, EndInv DEF NoStorageProof
<1>4. CASE BeginStorage
  <2>1. /\ Len(StorageNodes) \in Nat
        /\ Chain(StorageNodes, claim.key, claim.value, Len(StorageNodes))
        /\ Below(StorageNodes, claim.value, Len(StorageNodes)) = claim.value
    BY <1>4, ChainEmpty DEF BeginStorage, Input
  <2>2. Nodes' = StorageNodes /\ Key' = claim.key /\ Leaf' = claim.value
    BY <1>4 DEF BeginStorage, Parse, Nodes, Key, Leaf, input, StorageNodes
  <2>3. QED
    BY <1>1, <1>2, <1>4, <2>1, <2>2
    DEF BeginStorage, Parse, Inv, LoopInv, BrokenOnlyAtGaps, input
<1>5. CASE EdgeStep
  <2>1. left = Len(Nodes) =>
          /\ Node.child = Leaf /\ Node.len \in 0..Width
          /\ Node.path = Num(LowBits(Key, Node.len))
    BY <1>5, FitLeads DEF EdgeStep
  <2>2. left \in 0..Len(Nodes) /\ Len(Nodes) \in Nat
    BY <1>5 DEF EdgeStep, Inv, LoopInv, Input, Nodes
  <2>3. Gap(Nodes, left) \/ Tied(Nodes, Key, Leaf, left)
    BY <1>5, <2>1, <2>2 DEF EdgeStep, Gap, Tied, Node, Below
  <2>4. QED BY <1>2, <1>5, <2>3, LoopStep DEF EdgeStep
<1>6. CASE EdgeMisfit BY <1>2, <1>6, EndInv DEF EdgeMisfit
<1>7. CASE BinaryStep
  <2>1. Pedersen(Node.lower, Node.upper) = ExpectedHash
    BY <1>7 DEF BinaryStep, NodeHash
  <2>2. hold \in {Node.lower, Node.upper} BY <2>1 DEF ExpectedHash, Pedersen
  <2>3. hold = Below(Nodes, Leaf, left) BY <1>7 DEF BinaryStep, Inv, LoopInv
  <2>4. Tied(Nodes, Key, Leaf, left) BY <1>7, <2>2, <2>3 DEF BinaryStep, Tied, Node
  <2>5. QED BY <1>2, <1>7, <2>4, LoopStep DEF BinaryStep
<1>8. CASE BinaryMisfit BY <1>2, <1>8, EndInv DEF BinaryMisfit
<1>9. CASE StorageRoot
  <2>1. CASE hold = proof.contract_data.root
    <3> DEFINE nodes == proof.contract_proof
               stateHash == ContractStateHash(proof.contract_data)
    <3>1. StorageChained
      BY <1>9, <2>1 DEF StorageRoot, Inv, LoopInv, Nodes, Key, Leaf, StorageChained
    <3>2. /\ Chain(nodes, claim.address, stateHash, Len(nodes))
          /\ Below(nodes, stateHash, Len(nodes)) = stateHash
      BY ChainEmpty DEF Input
    <3>3. Parse("contract", nodes, stateHash) BY <1>9, <2>1 DEF StorageRoot
    <3>4. Nodes' = nodes /\ Key' = claim.address /\ Leaf' = stateHash
      BY <3>3 DEF Parse, Nodes, Key, Leaf, input
    <3>5. StorageChained'
      BY <1>1, <3>1 DEF input, StorageChained, StorageNodes
    <3>6. left' \in 0..Len(nodes) /\ hold' = stateHash /\ left' = Len(nodes)
      BY <3>3 DEF Parse, Input
    <3>7. QED
      BY <1>1, <1>2, <1>9, <3>2, <3>3, <3>4, <3>5, <3>6
      DEF StorageRoot, Parse, Inv, LoopInv, BrokenOnlyAtGaps, input
  <2>2. CASE hold # proof.contract_data.root
    BY <1>2, <1>9, <2>2, EndInv DEF StorageRoot
  <2>3. QED BY <1>2, <2>1, <2>2
<1>10. CASE StateRoot
  <2>1. CASE End("error") BY <1>2, <1>10, <2>1, EndInv DEF StateRoot
  <2>2. CASE End("ok")
    <3>1. claim.root = GlobalRoot(hold, proof.class_commitment)
      BY <1>10, <2>2 DEF StateRoot, End
    <3>2. StorageChained /\ ContractChained
      BY <1>10, <3>1 DEF StateRoot, Inv, LoopInv, Nodes, Key, Leaf, ContractChained
    <3>3. QED
      BY <1>1, <1>2, <2>2, <3>2
      DEF End, Inv, LoopInv, BrokenOnlyAtGaps, input, StorageChained, ContractChained,
          StorageNodes
  <2>3. QED BY <1>2, <1>10, <2>1, <2>2 DEF StateRoot
<1>11. CASE UNCHANGED vars
  BY <1>2, <1>11
  DEF vars, input, Inv, LoopInv, BrokenOnlyAtGaps, StorageChained, ContractChained,
      StorageNodes, Nodes, Key, Leaf
<1>12. QED
  BY <1>2, <1>3, <1>4, <1>5, <1>6, <1>7, <1>8, <1>9, <1>10, <1>11 DEF Next

\* At every iteration, for every answer, hold is the hash of a part that hangs
\* together but for gaps.
THEOREM LoopInvariance == Spec => []LoopInv
<1>1. Inv => LoopInv BY DEF Inv
<1>2. QED BY InvInit, InvStep, <1>1, PTL DEF Spec

\* Whatever the provider answers, what is accepted hangs together from the value to
\* the trusted root, but for gaps.
THEOREM OnlyGapsBreak == Spec => []BrokenOnlyAtGaps
<1>1. Inv => BrokenOnlyAtGaps BY DEF Inv
<1>2. QED BY InvInit, InvStep, <1>1, PTL DEF Spec

-----------------------------------------------------------------------------
(* Where the loop is on a key. Heights need not exist for what a provider     *)
(* answers: what follows is about every assignment of heights that fits.      *)

PathLenFits(nodes) == \A h \in HeightsOf(nodes) : pathLen = h[left]

\* Below the l-th node the list follows the key down to the leaf.
Sided(nodes, key, leaf, l) == \A h \in HeightsOf(nodes) : OnKey(nodes, key, leaf, h, l)

SidedInv ==
  /\ phase \in {"storage", "contract"} => PathLenFits(Nodes) /\ Sided(Nodes, Key, Leaf, left)
  /\ phase = "contract" => Sided(StorageNodes, claim.key, claim.value, 0)
  /\ verdict = "ok" =>
       /\ HasStorageProof(proof)
       /\ Sided(StorageNodes, claim.key, claim.value, 0)
       /\ Sided(proof.contract_proof, claim.address, ContractStateHash(proof.contract_data), 0)

\* Below a node there is at least one bit less of the key.
LEMMA HeightsRange ==
  ASSUME NEW nodes, Len(nodes) \in Nat, NEW h \in HeightsOf(nodes)
  PROVE  /\ \A j \in 0..Len(nodes) : h[j] \in 0..Width
         /\ h[Len(nodes)] = 0 /\ h[0] = Width
         /\ \A j \in 1..Len(nodes) :
              /\ Rise(nodes[j]) \in 1..Width
              /\ h[j - 1] = h[j] + Rise(nodes[j])
              /\ h[j] \in 0..(Width - 1)
<1>1. h \in [0..Len(nodes) -> 0..Width] /\ Heights(nodes, h) BY DEF HeightsOf
<1>2. \A j \in 0..Len(nodes) : h[j] \in 0..Width BY <1>1
<1>3. ASSUME NEW j \in 1..Len(nodes)
      PROVE  /\ Rise(nodes[j]) \in 1..Width
             /\ h[j - 1] = h[j] + Rise(nodes[j])
             /\ h[j] \in 0..(Width - 1)
  <2>1. Rise(nodes[j]) \in 1..Width /\ h[j - 1] = h[j] + Rise(nodes[j])
    BY <1>1 DEF Heights
  <2>2. h[j] \in 0..Width /\ h[j - 1] \in 0..Width BY <1>2
  <2>3. QED BY <2>1, <2>2, WidthAssumption
<1>4. QED BY <1>1, <1>2, <1>3 DEF Heights

\* What the loop needs of the heights, whatever the leaf.
LEMMA InTheKey ==
  ASSUME Input, Inv, phase \in {"storage", "contract"}, left > 0, PathLenFits(Nodes),
         NEW h \in HeightsOf(Nodes)
  PROVE  /\ Len(Nodes) \in Nat /\ left \in 1..Len(Nodes)
         /\ pathLen = h[left] /\ pathLen \in 0..(Width - 1)
         /\ h[left - 1] = pathLen + Rise(Node)
         /\ Node.tag \in {"binary", "edge"}
         /\ Node.tag = "edge" => Node.len \in 0..Width
         /\ Wrapped(pathLen + Rise(Node)) = pathLen + Rise(Node)
<1>1. Len(Nodes) \in Nat BY DEF Nodes, Inv, LoopInv, Input
<1>2. left \in 1..Len(Nodes) BY <1>1 DEF Inv, LoopInv
<1>3. pathLen = h[left] BY DEF PathLenFits
<1>4. /\ Rise(Node) \in 1..Width /\ h[left - 1] = h[left] + Rise(Node)
      /\ h[left] \in 0..(Width - 1)
  BY <1>1, <1>2, HeightsRange DEF Node
<1>5. Node.tag \in {"binary", "edge"} BY <1>2 DEF Input, Nodes, Node, Inv, LoopInv
<1>6. Node.tag = "edge" => Node.len \in 0..Width BY <1>4, WidthAssumption DEF Rise
<1>7. Wrapped(pathLen + Rise(Node)) = pathLen + Rise(Node)
  <2>1. h[left - 1] \in 0..Width BY <1>1, <1>2, HeightsRange
  <2>2. pathLen + Rise(Node) \in 0..Width BY <1>3, <1>4, <2>1
  <2>3. QED BY <2>2, WidthAssumption, MaxLenAssumption DEF Wrapped
<1>8. QED BY <1>1, <1>2, <1>3, <1>4, <1>5, <1>6, <1>7

\* The two lists of nodes do not change during the verification.
LEMMA ProofStays ==
  ASSUME UNCHANGED input
  PROVE  proof' = proof /\ claim' = claim /\ StorageNodes' = StorageNodes
BY DEF input, StorageNodes

\* A node that passes is on the key's way, and pathLen grows to the height of
\* what is above it.
LEMMA SidedLoop ==
  ASSUME Input, Inv, SidedInv, EdgeStep \/ BinaryStep
  PROVE  SidedInv'
<1>1. /\ phase \in {"storage", "contract"} /\ left > 0 /\ UNCHANGED <<input, phase, verdict>>
      /\ left' = left - 1 /\ pathLen' \in {pathLen + Rise(Node), Wrapped(pathLen + Rise(Node))}
      /\ Node.tag = "edge" /\ left = Len(Nodes) => EdgeFits
      /\ Node.tag = "binary" => NodeHash(Node) = ExpectedHash
  BY DEF EdgeStep, BinaryStep, Rise
<1>2. /\ proof' = proof /\ claim' = claim /\ StorageNodes' = StorageNodes
      /\ Nodes' = Nodes /\ Key' = Key /\ Leaf' = Leaf
  BY <1>1, ProofStays DEF Nodes, Key, Leaf
<1>3. ASSUME NEW h \in HeightsOf(Nodes)
      PROVE  pathLen' = h[left'] /\ OnKey(Nodes, Key, Leaf, h, left')
  <2>1. /\ Len(Nodes) \in Nat /\ left \in 1..Len(Nodes) /\ pathLen = h[left]
        /\ h[left - 1] = pathLen + Rise(Node) /\ pathLen' = pathLen + Rise(Node)
    BY <1>1, InTheKey DEF SidedInv
  <2>2. OnKey(Nodes, Key, Leaf, h, left) BY <1>1 DEF SidedInv, Sided
  <2>3. hold = Below(Nodes, Leaf, left) BY <1>1 DEF Inv, LoopInv
  <2>4. Node.tag = "binary" => hold = Side(Node, Key, h[left] + 1)
    BY <1>1, <2>1 DEF ExpectedHash, NodeHash, Side, Pedersen
  <2>5. Node.tag = "edge" /\ left = Len(Nodes) =>
          Node.child = Leaf /\ Node.path = Num(LowBits(Key, Node.len))
    BY <1>1, FitLeads
  <2>6. \A j \in (left' + 1)..Len(Nodes) : j = left \/ j \in (left + 1)..Len(Nodes)
    BY <1>1, <2>1
  <2>7. OnKey(Nodes, Key, Leaf, h, left')
    BY <2>2, <2>3, <2>4, <2>5, <2>6 DEF OnKey, Node
  <2>8. QED BY <1>1, <2>1, <2>7
<1>4. PathLenFits(Nodes)' /\ Sided(Nodes, Key, Leaf, left)'
  BY <1>2, <1>3 DEF PathLenFits, Sided
<1>5. Sided(StorageNodes, claim.key, claim.value, 0)' =
        Sided(StorageNodes, claim.key, claim.value, 0)
  BY <1>2 DEF Sided
<1>6. verdict' # "ok" BY <1>1 DEF Inv, LoopInv
<1>7. QED BY <1>1, <1>4, <1>5, <1>6 DEF SidedInv

\* A verdict that is not an acceptance.
LEMMA SidedEnd ==
  ASSUME NEW v \in {"error", "panic"}, End(v)
  PROVE  SidedInv'
BY DEF SidedInv, End

\* Nothing of a list is processed yet: it fits, with nothing used up.
LEMMA SidedStart ==
  ASSUME NEW nodes, Len(nodes) \in Nat, NEW key, NEW leaf, NEW h \in HeightsOf(nodes)
  PROVE  h[Len(nodes)] = 0 /\ OnKey(nodes, key, leaf, h, Len(nodes))
BY HeightsRange DEF OnKey

LEMMA SidedInit == Init => SidedInv
BY DEF Init, SidedInv

LEMMA SidedStep == Inv /\ Input /\ SidedInv /\ [Next]_vars => SidedInv'
<1> SUFFICES ASSUME Inv, Input, SidedInv, [Next]_vars PROVE SidedInv' OBVIOUS
<1>1. CASE NoStorageProof BY <1>1, SidedEnd DEF NoStorageProof
<1>2. CASE BeginStorage
  <2>1. /\ phase' = "storage" /\ left' = Len(StorageNodes) /\ pathLen' = 0
        /\ verdict' # "ok" /\ UNCHANGED input
    BY <1>2 DEF BeginStorage, Parse, Inv, LoopInv
  <2>2. Nodes' = StorageNodes /\ Key' = claim.key /\ Leaf' = claim.value
    BY <2>1, ProofStays DEF Nodes, Key, Leaf
  <2>3. Len(StorageNodes) \in Nat BY <1>2 DEF BeginStorage, Input
  <2>4. PathLenFits(Nodes)' /\ Sided(Nodes, Key, Leaf, left)'
    BY <2>1, <2>2, <2>3, SidedStart DEF PathLenFits, Sided
  <2>5. QED BY <2>1, <2>4 DEF SidedInv
<1>3. CASE EdgeStep \/ BinaryStep BY <1>3, SidedLoop
<1>4. CASE EdgeMisfit BY <1>4, SidedEnd DEF EdgeMisfit
<1>5. CASE BinaryMisfit BY <1>5, SidedEnd DEF BinaryMisfit
<1>6. CASE StorageRoot
  <2>1. CASE hold # proof.contract_data.root BY <1>6, <2>1, SidedEnd DEF StorageRoot
  <2>2. CASE hold = proof.contract_data.root
    <3>1. /\ phase' = "contract" /\ left' = Len(proof.contract_proof) /\ pathLen' = 0
          /\ verdict' # "ok" /\ UNCHANGED input
      BY <1>6, <2>2 DEF StorageRoot, Parse, Inv, LoopInv
    <3>2. /\ Nodes' = proof.contract_proof
          /\ proof' = proof /\ claim' = claim /\ StorageNodes' = StorageNodes
      BY <3>1, ProofStays DEF Nodes
    <3>3. Len(proof.contract_proof) \in Nat BY DEF Input
    <3>4. PathLenFits(Nodes)' /\ Sided(Nodes, Key, Leaf, left)'
      BY <3>1, <3>2, <3>3, SidedStart DEF PathLenFits, Sided
    <3>5. Sided(StorageNodes, claim.key, claim.value, 0)
      BY <1>6 DEF StorageRoot, SidedInv, Nodes, Key, Leaf
    <3>6. Sided(StorageNodes, claim.key, claim.value, 0)' BY <3>2, <3>5 DEF Sided
    <3>7. QED BY <3>1, <3>4, <3>6 DEF SidedInv
  <2>3. QED BY <2>1, <2>2
<1>7. CASE StateRoot
  <2>1. CASE End("error") BY <2>1, SidedEnd
  <2>2. CASE End("ok")
    <3>1. phase' = "end" /\ UNCHANGED input BY <2>2 DEF End
    <3>2. proof' = proof /\ claim' = claim /\ StorageNodes' = StorageNodes
      BY <3>1, ProofStays
    <3>3. HasStorageProof(proof)
      BY <1>7 DEF StateRoot, Inv, LoopInv, HasStorageProof
    <3>4. /\ Sided(StorageNodes, claim.key, claim.value, 0)
          /\ Sided(proof.contract_proof, claim.address,
                   ContractStateHash(proof.contract_data), 0)
      BY <1>7 DEF StateRoot, SidedInv, Nodes, Key, Leaf
    <3>5. QED BY <3>1, <3>2, <3>3, <3>4 DEF SidedInv, Sided, HasStorageProof
  <2>3. QED BY <1>7, <2>1, <2>2 DEF StateRoot
<1>8. CASE UNCHANGED vars
  BY <1>8 DEF vars, SidedInv, Sided, PathLenFits, HasStorageProof, StorageNodes, Nodes, Key, Leaf
<1>9. QED BY <1>1, <1>2, <1>3, <1>4, <1>5, <1>6, <1>7, <1>8 DEF Next

-----------------------------------------------------------------------------
(* A genuine proof decides: past the lowest node of its storage proof the     *)
(* claimed value is the one it shows.                                         *)

Genuine == GenuineProof(claim, proof)

DecideInv ==
  /\ phase = "storage" /\ left < Len(StorageNodes) => claim.value = Shown(claim, proof)
  /\ phase = "contract" => claim.value = Shown(claim, proof)
  /\ GenuineDecides

\* What the induction carries, for a genuine proof; any other owes nothing.
DInv == Genuine => DecideInv

\* The storage nodes of a genuine proof, and its contract nodes.
LEMMA GenuineParts ==
  ASSUME Genuine, Input
  PROVE  /\ proof.contract_data # None
         /\ proof.contract_data.storage_proofs \notin {None, <<>>}
         /\ FullPath(StorageNodes, claim.key, Shown(claim, proof))
         /\ proof.contract_data.root = Below(StorageNodes, Shown(claim, proof), 0)
         /\ FullPath(proof.contract_proof, claim.address,
                     ContractStateHash(proof.contract_data))
         /\ proof.class_commitment # None /\ proof.state_commitment # None
         /\ proof.state_commitment =
              GlobalRoot(Below(proof.contract_proof, ContractStateHash(proof.contract_data), 0),
                         proof.class_commitment)
         /\ claim.root = proof.state_commitment
         /\ Len(StorageNodes) \in Nat /\ Len(proof.contract_proof) \in Nat
BY DEF Genuine, GenuineProof, HasStorageProof, StorageNodes, Input

\* A node list with heights is not empty.
LEMMA PathNotEmpty ==
  ASSUME NEW nodes, Len(nodes) \in Nat, NEW key, NEW leaf, FullPath(nodes, key, leaf)
  PROVE  Len(nodes) > 0 /\ HeightsOf(nodes) # {}
<1>1. PICK h \in HeightsOf(nodes) : OnKey(nodes, key, leaf, h, 0) BY DEF FullPath
<1>2. h[Len(nodes)] = 0 /\ h[0] = Width BY HeightsRange
<1>3. QED BY <1>2, WidthAssumption

\* A lowest node that fits the leaf it is taken with leads to that leaf.
LEMMA FitMeansShown ==
  ASSUME Input, Genuine, phase = "storage", left = Len(Nodes), hold = Leaf, pathLen = 0,
         left > 0,
         Node.tag = "edge" => EdgeFits,
         Node.tag = "binary" => NodeHash(Node) = ExpectedHash
  PROVE  claim.value = Shown(claim, proof)
<1>1. /\ Nodes = StorageNodes /\ Key = claim.key /\ Leaf = claim.value
      /\ Node = StorageNodes[Len(StorageNodes)]
  BY DEF Nodes, Key, Leaf, Node
<1>2. Len(StorageNodes) \in Nat BY GenuineParts
<1>3. Node.tag \in {"binary", "edge"}
  BY <1>1, <1>2, GenuineParts DEF Input
<1>4. Shown(claim, proof) =
        IF Node.tag = "edge" THEN Node.child ELSE Side(Node, claim.key, 1)
  BY <1>1 DEF Shown, StorageNodes
<1>5. CASE Node.tag = "edge"
  BY <1>1, <1>4, <1>5, FitLeads
<1>6. CASE Node.tag = "binary"
  <2>1. Pedersen(Node.lower, Node.upper) =
          IF Bit(claim.key, 1) = 0 THEN Pedersen(claim.value, Node.upper)
          ELSE Pedersen(Node.lower, claim.value)
    BY <1>1, <1>6 DEF NodeHash, ExpectedHash
  <2>2. claim.value = Side(Node, claim.key, 1)
    BY <2>1 DEF Side, Pedersen
  <2>3. QED BY <1>4, <1>6, <2>2
<1>7. QED BY <1>3, <1>5, <1>6

\* The proof at hand leads along a key to a leaf, the claimed value or not.
LEMMA GenuinePath ==
  ASSUME Genuine, Input, phase \in {"storage", "contract"},
         phase = "storage" => claim.value = Shown(claim, proof)
  PROVE  FullPath(Nodes, Key, Leaf)
BY GenuineParts DEF Nodes, Key, Leaf

\* With the value that is shown, every node passes.
LEMMA ShownPasses ==
  ASSUME Genuine, Input, Inv, SidedInv, phase \in {"storage", "contract"}, left > 0,
         phase = "storage" => claim.value = Shown(claim, proof)
  PROVE  /\ Node.tag = "edge" /\ left = Len(Nodes) => EdgeFits
         /\ Node.tag = "binary" => NodeHash(Node) = ExpectedHash
<1>1. PICK h \in HeightsOf(Nodes) : OnKey(Nodes, Key, Leaf, h, 0)
  BY GenuinePath DEF FullPath
<1>2. /\ Len(Nodes) \in Nat /\ left \in 1..Len(Nodes) /\ pathLen = h[left]
      /\ Node.tag = "edge" => Node.len \in 0..Width
  BY InTheKey DEF SidedInv
<1>3. hold = Below(Nodes, Leaf, left) BY DEF Inv, LoopInv
<1>4. /\ Node.tag = "binary" => hold = Side(Node, Key, pathLen + 1)
      /\ Node.tag = "edge" /\ left = Len(Nodes) =>
           Node.child = Leaf /\ Node.path = Num(LowBits(Key, Node.len))
  BY <1>1, <1>2, <1>3 DEF OnKey, Node
<1>5. Node.tag = "edge" /\ left = Len(Nodes) => EdgeFits
  BY <1>2, <1>4 DEF EdgeFits, NodeHash
<1>6. Node.tag = "binary" => NodeHash(Node) = ExpectedHash
  BY <1>4 DEF ExpectedHash, NodeHash, Side
<1>7. QED BY <1>5, <1>6

\* A node that does not pass refutes the value; nothing leaves the key.
LEMMA MisfitRefutes ==
  ASSUME Genuine, Input, Inv, SidedInv, EdgeMisfit \/ BinaryMisfit
  PROVE  End("error") /\ claim.value # Shown(claim, proof)
<1>1. phase \in {"storage", "contract"} /\ left > 0 BY DEF EdgeMisfit, BinaryMisfit
<1>2. HeightsOf(Nodes) # {} BY <1>1, GenuineParts, PathNotEmpty DEF Nodes
<1>3. PICK h \in HeightsOf(Nodes) : TRUE BY <1>2
<1>4. /\ pathLen \in 0..(Width - 1) /\ (Node.tag = "edge" => Node.len \in 0..Width)
      /\ Node.tag = "edge" => Wrapped(pathLen + Node.len) = pathLen + Node.len
  BY <1>1, <1>3, InTheKey DEF SidedInv, Rise
<1>5. End("error") BY <1>4 DEF EdgeMisfit, BinaryMisfit
<1>6. ~ (/\ Node.tag = "edge" /\ left = Len(Nodes) => EdgeFits
         /\ Node.tag = "binary" => NodeHash(Node) = ExpectedHash)
  BY <1>4 DEF EdgeMisfit, BinaryMisfit
<1>7. phase = "storage" /\ claim.value # Shown(claim, proof)
  BY <1>1, <1>6, ShownPasses
<1>8. QED BY <1>5, <1>7

\* What a genuine proof is does not change during the verification.
LEMMA GenuineStays ==
  ASSUME UNCHANGED input
  PROVE  /\ Genuine' = Genuine /\ StorageNodes' = StorageNodes
         /\ Shown(claim, proof)' = Shown(claim, proof)
         /\ proof' = proof /\ claim' = claim
BY DEF input, Genuine, StorageNodes

\* Once the lowest node has passed, the value is the one that is shown.
LEMMA DecideStep ==
  ASSUME Genuine, Input, Inv, SidedInv, DecideInv, EdgeStep \/ BinaryStep
  PROVE  DecideInv'
<1>1. /\ phase \in {"storage", "contract"} /\ left > 0 /\ UNCHANGED <<input, phase>>
      /\ left' = left - 1
      /\ Node.tag = "edge" /\ left = Len(Nodes) => EdgeFits
      /\ Node.tag = "binary" => NodeHash(Node) = ExpectedHash
  BY DEF EdgeStep, BinaryStep
<1>2. /\ StorageNodes' = StorageNodes /\ proof' = proof /\ claim' = claim
      /\ Shown(claim, proof)' = Shown(claim, proof)
  BY <1>1, GenuineStays
<1>3. ASSUME phase = "storage" PROVE claim.value = Shown(claim, proof)
  <2>1. CASE left < Len(StorageNodes) BY <1>3, <2>1 DEF DecideInv
  <2>2. CASE left = Len(Nodes)
    <3>1. PICK h \in HeightsOf(Nodes) : TRUE
      BY <1>3, GenuineParts, PathNotEmpty DEF Nodes
    <3>2. Len(Nodes) \in Nat BY GenuineParts DEF Nodes
    <3>3. hold = Leaf BY <1>1, <2>2 DEF Inv, LoopInv, Below
    <3>4. pathLen = 0 BY <1>1, <2>2, <3>1, <3>2, HeightsRange DEF SidedInv, PathLenFits
    <3>5. QED BY <1>1, <1>3, <2>2, <3>3, <3>4, FitMeansShown
  <2>3. Len(Nodes) \in Nat /\ left \in 0..Len(Nodes)
    BY <1>1, GenuineParts DEF Inv, LoopInv, Nodes
  <2>4. QED BY <1>3, <2>1, <2>2, <2>3 DEF Nodes
<1>4. QED BY <1>1, <1>2, <1>3 DEF DecideInv, GenuineDecides

LEMMA DInvInit == Init => DInv
BY DEF Init, DInv, DecideInv, GenuineDecides

LEMMA DInvStep == Inv /\ Input /\ SidedInv /\ DInv /\ [Next]_vars => DInv'
<1> SUFFICES ASSUME Inv, Input, SidedInv, DInv, [Next]_vars, Genuine' PROVE DecideInv'
  BY DEF DInv
<1>1. UNCHANGED input
  BY DEF Next, vars, input, NoStorageProof, BeginStorage, EdgeStep, EdgeMisfit,
     BinaryStep, BinaryMisfit, StorageRoot, StateRoot, End, Parse
<1>2. /\ Genuine /\ StorageNodes' = StorageNodes /\ proof' = proof /\ claim' = claim
      /\ Shown(claim, proof)' = Shown(claim, proof)
  BY <1>1, GenuineStays
<1>3. DecideInv BY <1>2 DEF DInv
<1>4. CASE NoStorageProof BY <1>2, <1>4, GenuineParts DEF NoStorageProof
<1>5. CASE BeginStorage
  <2>1. phase' = "storage" /\ left' = Len(StorageNodes)
    BY <1>5 DEF BeginStorage, Parse
  <2>2. Len(StorageNodes) \in Nat BY <1>2, GenuineParts
  <2>3. QED BY <1>2, <2>1, <2>2 DEF DecideInv, GenuineDecides
<1>6. CASE EdgeStep \/ BinaryStep BY <1>2, <1>3, <1>6, DecideStep
<1>7. CASE EdgeMisfit \/ BinaryMisfit
  <2>1. End("error") /\ claim.value # Shown(claim, proof)
    BY <1>2, <1>3, <1>7, MisfitRefutes
  <2>2. QED BY <1>2, <2>1 DEF End, DecideInv, GenuineDecides
<1>8. CASE StorageRoot
  <2>1. Len(StorageNodes) \in Nat /\ Len(StorageNodes) > 0
    BY <1>2, GenuineParts, PathNotEmpty
  <2>2. claim.value = Shown(claim, proof) BY <1>3, <1>8, <2>1 DEF StorageRoot, DecideInv
  <2>3. hold = Below(StorageNodes, claim.value, 0)
    BY <1>8 DEF StorageRoot, Inv, LoopInv, Nodes, Leaf
  <2>4. hold = proof.contract_data.root BY <1>2, <2>2, <2>3, GenuineParts
  <2>5. phase' = "contract" BY <1>8, <2>4 DEF StorageRoot, Parse
  <2>6. QED BY <1>2, <2>2, <2>5 DEF DecideInv, GenuineDecides
<1>9. CASE StateRoot
  <2>1. claim.value = Shown(claim, proof) BY <1>3, <1>9 DEF StateRoot, DecideInv
  <2>2. hold = Below(proof.contract_proof, ContractStateHash(proof.contract_data), 0)
    BY <1>9 DEF StateRoot, Inv, LoopInv, Nodes, Leaf
  <2>3. End("ok") BY <1>2, <1>9, <2>2, GenuineParts DEF StateRoot
  <2>4. QED BY <1>2, <2>1, <2>3 DEF End, DecideInv, GenuineDecides
<1>10. CASE UNCHANGED vars
  BY <1>2, <1>3, <1>10 DEF vars, DecideInv, GenuineDecides, Genuine
<1>11. QED BY <1>4, <1>5, <1>6, <1>7, <1>8, <1>9, <1>10 DEF Next

\* Whatever the shapes of the tries and the width of the keys, a genuine proof is
\* accepted for the value it leads to and refused, without a panic, for any other.
THEOREM GenuineDecided == Spec => []GenuineDecides
<1>1. Inv /\ DInv => GenuineDecides BY DEF DInv, DecideInv, GenuineDecides, Genuine
<1>2. QED BY InvInit, InvStep, SidedInit, SidedStep, DInvInit, DInvStep, <1>1, PTL DEF Spec

-----------------------------------------------------------------------------
(* Two ways from one hash along one key lead to the same leaf. The induction  *)
(* goes down from the root: were there a first place where they part, the     *)
(* hash above it would have come from two different nodes.                    *)

\* A set of naturals that is not empty has a least member.
LEMMA LeastNat ==
  ASSUME NEW T \in SUBSET Nat, T # {}
  PROVE  \E x \in T : \A y \in T : x <= y
<1> DEFINE R == OpToRel(<, Nat)
<1>1. IsWellFoundedOn(R, Nat) BY NatLessThanWellFounded
<1>2. ASSUME NEW x \in Nat, NEW y \in Nat, x < y PROVE <<x, y>> \in R
  BY <1>2 DEF OpToRel
<1> HIDE DEF R
<1>3. PICK x \in T : \A y \in T : ~ (<<y, x>> \in R) BY <1>1, WFMin
<1>4. ASSUME NEW y \in T, ~ (x <= y) PROVE FALSE
  <2>1. y < x /\ x \in Nat /\ y \in Nat BY <1>4
  <2>2. <<y, x>> \in R BY <1>2, <2>1, Zenon
  <2>3. QED BY <1>3, <2>2, Zenon
<1>5. QED BY <1>4

\* nodes lead along the key to the leaf, and h are their heights.
Leads(nodes, key, leaf, h) ==
  /\ Len(nodes) \in Nat
  /\ \A j \in 1..Len(nodes) : nodes[j].tag \in {"binary", "edge"}
  /\ h \in HeightsOf(nodes) /\ Linked(nodes) /\ OnKey(nodes, key, leaf, h, 0)

\* What is below a node is its child, on the key's side if it has two.
LEMMA BelowIsChild ==
  ASSUME NEW nodes, NEW key, NEW leaf, NEW h, Leads(nodes, key, leaf, h),
         NEW j \in 1..Len(nodes)
  PROVE  Below(nodes, leaf, j) =
           IF nodes[j].tag = "edge" THEN nodes[j].child ELSE Side(nodes[j], key, h[j] + 1)
<1>1. Len(nodes) \in Nat /\ nodes[j].tag \in {"binary", "edge"} BY DEF Leads
<1>2. CASE nodes[j].tag = "binary" BY <1>1, <1>2 DEF Leads, OnKey
<1>3. CASE nodes[j].tag = "edge" /\ j = Len(nodes)
  BY <1>1, <1>3 DEF Leads, OnKey, Below
<1>4. CASE nodes[j].tag = "edge" /\ j # Len(nodes)
  <2>1. j \in 1..(Len(nodes) - 1) BY <1>1, <1>4
  <2>2. QED BY <1>4, <2>1 DEF Leads, Linked, Below
<1>5. QED BY <1>1, <1>2, <1>3, <1>4

\* A hash comes from one node, among nodes that stand for at least one bit.
LEMMA OneNode ==
  ASSUME NEW a, NEW b, a.tag \in {"binary", "edge"}, b.tag \in {"binary", "edge"},
         Rise(a) \in 1..Width, Rise(b) \in 1..Width,
         NodeHash(a) = NodeHash(b)
  PROVE  /\ a.tag = b.tag
         /\ a.tag = "edge" => a.child = b.child /\ a.len = b.len
         /\ a.tag = "binary" => a.lower = b.lower /\ a.upper = b.upper
<1>1. \A n \in {a, b} : n.tag = "edge" => n.len # 0 BY WidthAssumption DEF Rise
<1>2. QED BY <1>1 DEF NodeHash, EdgeHash, Pedersen

\* At the j-th node two ways are still one: the same hash at the same height.
Together(n, m, x, y, g, h, j) ==
  j <= Len(m) /\ Below(n, x, j) = Below(m, y, j) /\ g[j] = h[j]

LEMMA TogetherStep ==
  ASSUME NEW n, NEW m, NEW key, NEW x, NEW y, NEW g, NEW h,
         Leads(n, key, x, g), Leads(m, key, y, h),
         NEW j \in 1..Len(n), Together(n, m, x, y, g, h, j - 1)
  PROVE  Together(n, m, x, y, g, h, j)
<1>1. Len(n) \in Nat /\ Len(m) \in Nat BY DEF Leads
<1>2. /\ Rise(n[j]) \in 1..Width /\ g[j - 1] = g[j] + Rise(n[j]) /\ g[j] \in 0..(Width - 1)
      /\ h[Len(m)] = 0
  BY <1>1, HeightsRange DEF Leads
<1>3. g[j - 1] # 0 BY <1>2
<1>4. j - 1 # Len(m) BY <1>2, <1>3 DEF Together
<1>5. j \in 1..Len(m) BY <1>1, <1>4 DEF Together
<1>6. NodeHash(n[j]) = NodeHash(m[j]) BY <1>1, <1>4 DEF Together, Below
<1>7. n[j].tag \in {"binary", "edge"} /\ m[j].tag \in {"binary", "edge"}
  BY <1>5 DEF Leads
<1>8. /\ Rise(m[j]) \in 1..Width /\ h[j - 1] = h[j] + Rise(m[j])
      /\ h[j] \in 0..(Width - 1)
  BY <1>1, <1>5, HeightsRange DEF Leads
<1>9. /\ n[j].tag = m[j].tag
      /\ n[j].tag = "edge" => n[j].child = m[j].child /\ n[j].len = m[j].len
      /\ n[j].tag = "binary" => n[j].lower = m[j].lower /\ n[j].upper = m[j].upper
  BY <1>2, <1>6, <1>7, <1>8, OneNode
<1>10. Rise(n[j]) = Rise(m[j]) BY <1>7, <1>9 DEF Rise
<1>11. g[j] = h[j]
  <2>1. g[j - 1] = h[j - 1] BY DEF Together
  <2>2. g[j] + Rise(n[j]) = h[j] + Rise(n[j]) BY <1>2, <1>8, <1>10, <2>1
  <2>3. g[j] \in Int /\ h[j] \in Int /\ Rise(n[j]) \in Int
    BY <1>2, <1>8, WidthAssumption
  <2>4. QED BY <2>2, <2>3
<1>12. Below(n, x, j) = Below(m, y, j)
  <2>1. Below(n, x, j) = IF n[j].tag = "edge" THEN n[j].child ELSE Side(n[j], key, g[j] + 1)
    BY BelowIsChild
  <2>2. Below(m, y, j) = IF m[j].tag = "edge" THEN m[j].child ELSE Side(m[j], key, h[j] + 1)
    BY <1>5, BelowIsChild
  <2>3. CASE n[j].tag = "edge" BY <1>9, <2>1, <2>2, <2>3
  <2>4. CASE n[j].tag = "binary"
    <3>1. Side(n[j], key, g[j] + 1) = Side(m[j], key, h[j] + 1)
      BY <1>9, <1>11, <2>4 DEF Side
    <3>2. QED BY <1>9, <2>1, <2>2, <2>4, <3>1
  <2>5. QED BY <1>7, <2>3, <2>4
<1>13. QED BY <1>1, <1>5, <1>11, <1>12 DEF Together

LEMMA SameLeaf ==
  ASSUME NEW n, NEW m, NEW key, NEW x, NEW y, NEW g, NEW h,
         Leads(n, key, x, g), Leads(m, key, y, h), Below(n, x, 0) = Below(m, y, 0)
  PROVE  x = y
<1> DEFINE Parted == {j \in 0..Len(n) : ~ Together(n, m, x, y, g, h, j)}
<1>1. Len(n) \in Nat /\ Len(m) \in Nat BY DEF Leads
<1>2. g[0] = Width /\ h[0] = Width /\ g[Len(n)] = 0 BY <1>1, HeightsRange DEF Leads
<1>3. Together(n, m, x, y, g, h, 0) BY <1>1, <1>2 DEF Together
<1>4. Parted = {}
  <2> SUFFICES ASSUME Parted # {} PROVE FALSE OBVIOUS
  <2>1. Parted \in SUBSET Nat BY <1>1
  <2>2. PICK j \in Parted : \A k \in Parted : j <= k BY <2>1, LeastNat
  <2>3. j \in 1..Len(n) /\ j - 1 \in 0..Len(n) BY <1>1, <1>3, <2>2
  <2>4. Together(n, m, x, y, g, h, j - 1) BY <2>2, <2>3
  <2>5. Together(n, m, x, y, g, h, j) BY <2>3, <2>4, TogetherStep
  <2>6. QED BY <2>2, <2>5
<1>5. Together(n, m, x, y, g, h, Len(n)) BY <1>1, <1>4
<1>6. Len(n) = Len(m)
  <2> SUFFICES ASSUME Len(n) # Len(m) PROVE FALSE OBVIOUS
  <2>1. Len(n) + 1 \in 1..Len(m) /\ (Len(n) + 1) - 1 = Len(n)
    BY <1>1, <1>5 DEF Together
  <2>2. /\ Rise(m[Len(n) + 1]) \in 1..Width
        /\ h[Len(n)] = h[Len(n) + 1] + Rise(m[Len(n) + 1])
        /\ h[Len(n) + 1] \in 0..(Width - 1)
    BY <1>1, <2>1, HeightsRange DEF Leads
  <2>3. h[Len(n)] = 0 BY <1>2, <1>5 DEF Together
  <2>4. QED BY <2>2, <2>3
<1>7. QED BY <1>5, <1>6 DEF Together, Below

\* The claim's slot has one value in the state of the trusted root.
LEMMA Agrees ==
  ASSUME Input, SidedInv, BrokenOnlyAtGaps, verdict = "ok", OnSomeWay(proof),
         NEW c \in Cases, GenuineProof(claim, c.proof)
  PROVE  claim.value = Shown(claim, c.proof)
<1> DEFINE a == proof.contract_data
           b == c.proof.contract_data
           aHash == ContractStateHash(a)
           bHash == ContractStateHash(b)
<1>1. /\ HasStorageProof(proof) /\ HasStorageProof(c.proof)
      /\ StorageNodes = a.storage_proofs[1]
  BY DEF SidedInv, GenuineProof, StorageNodes
<1>2. PICK g \in HeightsOf(proof.contract_proof) : TRUE BY DEF OnSomeWay
<1>3. Leads(proof.contract_proof, claim.address, aHash, g)
  BY <1>2 DEF Leads, Input, OnSomeWay, SidedInv, Sided
<1>4. PICK h \in HeightsOf(c.proof.contract_proof) :
        Leads(c.proof.contract_proof, claim.address, bHash, h)
  BY CasesAssumption DEF GenuineProof, FullPath, Leads
<1>5. Below(proof.contract_proof, aHash, 0) = Below(c.proof.contract_proof, bHash, 0)
  BY DEF BrokenOnlyAtGaps, ContractChained, GenuineProof, GlobalRoot
<1>6. aHash = bHash BY <1>3, <1>4, <1>5, SameLeaf
<1>7. a.root = b.root BY <1>6 DEF ContractStateHash, Pedersen
<1>8. PICK d \in HeightsOf(StorageNodes) : TRUE BY <1>1 DEF OnSomeWay
<1>9. Leads(StorageNodes, claim.key, claim.value, d)
  BY <1>1, <1>8 DEF Leads, Input, OnSomeWay, SidedInv, Sided, HasStorageProof
<1>10. PICK e \in HeightsOf(b.storage_proofs[1]) :
         Leads(b.storage_proofs[1], claim.key, Shown(claim, c.proof), e)
  BY <1>1, CasesAssumption DEF GenuineProof, FullPath, Leads, HasStorageProof
<1>11. Below(StorageNodes, claim.value, 0) =
         Below(b.storage_proofs[1], Shown(claim, c.proof), 0)
  BY <1>7 DEF BrokenOnlyAtGaps, StorageChained, GenuineProof
<1>12. QED BY <1>9, <1>10, <1>11, SameLeaf

\* Whatever slot, contract or state its nodes were made for, no proof is accepted
\* for a value other than the one a genuine proof of the claimed slot shows.
THEOREM AcceptedAgreed == Spec => []AcceptedAgrees
<1>1. Inv /\ Input /\ SidedInv => AcceptedAgrees BY Agrees DEF AcceptedAgrees, Inv
<1>2. QED BY InvInit, InvStep, SidedInit, SidedStep, <1>1, PTL DEF Spec
=============================================================================
