----------------------------- MODULE RpcContext -----------------------------
(***************************************************************************)
(* The two handlers of the RPC server that answer from verified state      *)
(* (rpc.rs): getStorageAt, and call up to the point where it hands its     *)
(* copy of the head to the executor.  Every request in flight is a task.   *)
(*                                                                         *)
(* getStorageAt first resolves the block id under a read guard, to a block *)
(* id and a trusted root; when the block is older than the head it asks    *)
(* the provider for the header and keeps the guard while it waits.  It     *)
(* then asks for the value and for a Merkle proof, without a guard, and    *)
(* verifies the value against the root.                                    *)
(*                                                                         *)
(* The RPC provider is external and not trusted: it answers any header,    *)
(* any value and a proof under any root, or nothing before the client's    *)
(* timeout.  A proof is modelled by the root it hashes to, and Provable    *)
(* says for which values some proof passes verify under a root; nothing is *)
(* assumed of it, as more than the slot's value may pass (MerkleTrie).     *)
(***************************************************************************)
EXTENDS SharedHead

CONSTANTS
  Requests,    \* the tasks that handle RPC requests
  Queries,     \* the method and block id a request may ask for
  MaxNumber,   \* the largest block number an id can have, that of an i64
  Values,      \* the values of the storage slot
  Provable,    \* Provable[root]: the values that verify accepts, of some proof
               \* for the slot, when it trusts this root
  None         \* no value, no resolution

VARIABLES
  pc,          \* pc[r]: where the handler of r is
  query,       \* query[r]: the method and block id r asked for
  resolved,    \* resolved[r]: the block id and the root it is bound to
  result       \* result[r]: the value received, None when there is none

rpcVars == <<pc, query, resolved, result>>

Query == [method : {"getStorageAt", "call"}, block_id : BlockId]
Resolution == [block_id : BlockId, root : Roots]

ASSUME RpcAssumption ==
  /\ Queries \subseteq Query
  /\ MaxNumber \in Nat
  /\ \A q \in Queries :
       q.block_id.tag = "number" => q.block_id.block_number <= MaxNumber
  /\ Provable \in [Roots -> SUBSET Values]
  /\ None \notin Resolution
  /\ None \notin Values

Pcs == {"idle", "lock", "resolve", "header", "value", "proof", "execute", "reply"}

RpcTypeOK ==
  /\ pc \in [Requests -> Pcs]
  /\ query \in [Requests -> Query]
  /\ resolved \in [Requests -> Resolution \cup {None}]
  /\ result \in [Requests -> Values \cup {None}]

AnyQuery == [method |-> "call", block_id |-> Tagged("latest")]

RpcInit ==
  /\ pc = [r \in Requests |-> "idle"]
  /\ query = [r \in Requests |-> AnyQuery]
  /\ resolved = [r \in Requests |-> None]
  /\ result = [r \in Requests |-> None]

Goto(r, l) == pc' = [pc EXCEPT ![r] = l]

Asks(r, method) == query[r].method = method

\* Variant: the head's own number is taken for an older block.
AtHead_BeyondOnly(id, h) ==
  \/ id = Tagged("latest")
  \/ id.tag = "number" /\ id.block_number > h.block_number
  \/ id.tag = "hash" /\ id.block_hash = h.block_hash

\* The head answers: latest, its own number or a number beyond it, its own hash.
AtHead(id, h) ==
  \/ id = Tagged("latest")
  \/ id.tag = "number" /\ id.block_number >= h.block_number
  \/ id.tag = "hash" /\ id.block_hash = h.block_hash

\* The block id the head is read by: the hash the client gave, else the number.
HeadResolution(id, h) ==
  [block_id |-> IF id.tag = "hash" THEN id ELSE ByNumber(h.block_number),
   root |-> h.root]

\* The checks on a header of the provider, against the id and the head.
HeaderMatches(id, x, h) ==
  \/ id.tag = "number" /\ x.block_number = id.block_number
  \/ /\ id.tag = "hash"
     /\ x.block_hash = id.block_hash
     /\ x.block_number < h.block_number

\* proof.verify(state_root, address, key, value). The answer has a commitment of
\* its own, the root it hashes to, which must be the trusted one; a value is
\* accepted if it is one that can be proved under that root.
Verifies(proofRoot, root, value) ==
  /\ proofRoot = root
  /\ value \in Provable[root]

\* A request comes in and its handler calls state.read().
Receive(r) ==
  /\ pc[r] = "idle"
  /\ \E q \in Queries : query' = [query EXCEPT ![r] = q]
  /\ Goto(r, "lock")
  /\ Enqueue(r)
  /\ UNCHANGED <<head, resolved, result>>

TakeGuard(r) ==
  /\ pc[r] = "lock"
  /\ AcquireRead(r)
  /\ Goto(r, "resolve")
  /\ UNCHANGED <<head, query, resolved, result>>

\* Variant: the guard lives until the execution has ended.
CloneHead_KeepsGuard(r) ==
  /\ pc[r] = "resolve"
  /\ Asks(r, "call")
  /\ resolved' = [resolved EXCEPT ![r] =
       [block_id |-> ByHash(head.block_hash), root |-> head.root]]
  /\ Goto(r, "execute")
  /\ UNCHANGED <<head, query, result, lockVars>>

\* call: state.read().await.clone(). The executor reads by the hash of its
\* copy and verifies against the root of its copy; block_id is not used.
CloneHead(r) ==
  /\ pc[r] = "resolve"
  /\ Asks(r, "call")
  /\ resolved' = [resolved EXCEPT ![r] =
       [block_id |-> ByHash(head.block_hash), root |-> head.root]]
  /\ Goto(r, "execute")
  /\ ReleaseRead(r)
  /\ UNCHANGED <<head, query, result>>

\* The blocking task ends, with a result, an error or a panic (join error).
ExecutionEnds(r) ==
  /\ pc[r] = "execute"
  /\ \E v \in Values \cup {None} : result' = [result EXCEPT ![r] = v]
  /\ Goto(r, "reply")
  /\ UNCHANGED <<head, query, resolved, lockVars>>

\* BlockNumber::try_new: the gateway's numbers are of 64 bits, those of an id are
\* not negative as an i64.
HasId(id, h) == id.tag = "hash" \/ h.block_number <= MaxNumber

ResolveAtHead(r) ==
  /\ pc[r] = "resolve"
  /\ Asks(r, "getStorageAt")
  /\ AtHead(query[r].block_id, head)
  /\ HasId(query[r].block_id, head)
  /\ resolved' = [resolved EXCEPT ![r] = HeadResolution(query[r].block_id, head)]
  /\ Goto(r, "value")
  /\ ReleaseRead(r)
  /\ UNCHANGED <<head, query, result>>

\* "BlockNumber value must be > 0": the head's number is none for an id.
RejectNumber(r) ==
  /\ pc[r] = "resolve"
  /\ Asks(r, "getStorageAt")
  /\ AtHead(query[r].block_id, head)
  /\ ~HasId(query[r].block_id, head)
  /\ Goto(r, "reply")
  /\ ReleaseRead(r)
  /\ UNCHANGED <<head, query, resolved, result>>

\* "Pending block is not supported"
RejectPending(r) ==
  /\ pc[r] = "resolve"
  /\ Asks(r, "getStorageAt")
  /\ query[r].block_id = Tagged("pending")
  /\ Goto(r, "reply")
  /\ ReleaseRead(r)
  /\ UNCHANGED <<head, query, resolved, result>>

\* Variant: the guard is dropped before the provider is asked.
AskHeader_DropsGuard(r) ==
  /\ pc[r] = "resolve"
  /\ Asks(r, "getStorageAt")
  /\ query[r].block_id.tag \in {"number", "hash"}
  /\ ~AtHead(query[r].block_id, head)
  /\ Goto(r, "header")
  /\ ReleaseRead(r)
  /\ UNCHANGED <<head, query, resolved, result>>

\* getBlockWithTxHashes is sent; the guard is kept.
AskHeader(r) ==
  /\ pc[r] = "resolve"
  /\ Asks(r, "getStorageAt")
  /\ query[r].block_id.tag \in {"number", "hash"}
  /\ ~AtHead(query[r].block_id, head)
  /\ Goto(r, "header")
  /\ UNCHANGED <<head, query, resolved, result, lockVars>>

HeaderArrives(r) ==
  /\ pc[r] = "header"
  /\ \E x \in Headers :
       IF HeaderMatches(query[r].block_id, x, head)
       THEN /\ resolved' = [resolved EXCEPT ![r] =
                 [block_id |-> query[r].block_id, root |-> x.root]]
            /\ Goto(r, "value")
       ELSE /\ Goto(r, "reply")
            /\ UNCHANGED resolved
  /\ ReleaseRead(r)
  /\ UNCHANGED <<head, query, result>>

ValueArrives(r) ==
  /\ pc[r] = "value"
  /\ \E v \in Values : result' = [result EXCEPT ![r] = v]
  /\ Goto(r, "proof")
  /\ UNCHANGED <<head, query, resolved, lockVars>>

ProofArrives(r) ==
  /\ pc[r] = "proof"
  /\ \E p \in Roots :
       IF Verifies(p, resolved[r].root, result[r])
       THEN UNCHANGED result
       ELSE result' = [result EXCEPT ![r] = None]
  /\ Goto(r, "reply")
  /\ UNCHANGED <<head, query, resolved, lockVars>>

\* The provider answers an error, a pending block, a malformed answer, or
\* nothing within the client's 30 seconds: `?` returns, a guard is dropped.
ProviderFails(r) ==
  /\ pc[r] \in {"header", "value", "proof"}
  /\ result' = [result EXCEPT ![r] = None]
  /\ Goto(r, "reply")
  /\ ReleaseRead(r)
  /\ UNCHANGED <<head, query, resolved>>

Forget(r) ==
  /\ Goto(r, "idle")
  /\ query' = [query EXCEPT ![r] = AnyQuery]
  /\ resolved' = [resolved EXCEPT ![r] = None]
  /\ result' = [result EXCEPT ![r] = None]
  /\ UNCHANGED head

\* The response is written and the handler is gone.
Reply(r) ==
  /\ pc[r] = "reply"
  /\ Forget(r)
  /\ UNCHANGED lockVars

\* The client hangs up, or a panic unwinds the connection's task: the
\* handler's future is dropped wherever it waits, with its guard or its place
\* in the lock's queue. (A blocking execution runs on, but nobody listens.)
Disconnect(r) ==
  /\ pc[r] # "idle"
  /\ Forget(r)
  /\ Abandon(r)

RpcNext(r) ==
  \/ Receive(r) \/ TakeGuard(r) \/ CloneHead(r) \/ ExecutionEnds(r)
  \/ ResolveAtHead(r) \/ RejectNumber(r) \/ RejectPending(r)
  \/ AskHeader(r) \/ HeaderArrives(r)
  \/ ValueArrives(r) \/ ProofArrives(r) \/ ProviderFails(r)
  \/ Reply(r) \/ Disconnect(r)

\* Variant: the server's client has no timeout.
RpcStep_NoTimeout(r) ==
  TakeGuard(r) \/ CloneHead(r) \/ ResolveAtHead(r) \/ RejectNumber(r)
    \/ RejectPending(r) \/ AskHeader(r) \/ Reply(r)

\* The steps a handler takes in bounded time: the runtime polls it again when
\* it can go on, and a provider query of the async client ends within 30
\* seconds. Nothing bounds an execution, and nobody owes a new request or a
\* hang-up.
RpcStep(r) ==
  \/ TakeGuard(r) \/ CloneHead(r)
  \/ ResolveAtHead(r) \/ RejectNumber(r) \/ RejectPending(r)
  \/ AskHeader(r) \/ HeaderArrives(r)
  \/ ValueArrives(r) \/ ProofArrives(r) \/ ProviderFails(r)
  \/ Reply(r)
=============================================================================
