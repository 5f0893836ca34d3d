# Beerus in TLA+

Beerus is a Starknet light client. Its native server (`src/bin/beerus.rs`,
`src/rpc.rs`) and its browser worker (`web/`) answer reads and calls from an RPC
provider they do not trust, and check what the provider says against a state
root they learn elsewhere, from the feeder gateway. This directory holds TLA+
models of the parts that have state or that decide, TLC configurations that
check them on small instances, and TLAPS proofs of the central results for every
instance. Paths below are relative to the repository; `rpc.rs` is `src/rpc.rs`
and so on. `PROJECT.json` maps each definition to the lines it models.

    tlc -workers 2 -config MCBeerus.cfg MCBeerus      # one run
    tlapm BeerusProofs.tla                            # one module's proofs

## 1. Inventory

| part | state it keeps | operations | what is hard |
| --- | --- | --- | --- |
| **Head poller** (`bin/beerus.rs` 24-45, `feeder.rs` 78-111) | `Arc<RwLock<State>>` (number, hash, root), its own copy `current` | tick, query, compare, write, remember | runs beside every request; the gateway fails, lags behind or reorgs |
| **RPC handlers** (`rpc.rs` 111-216, 284-312, 410-443) | per request: block id, decided root, a read guard | resolve a block id, read with proof, start a call, pass other methods on | a guard held over a network wait; decisions that outlive the head; timeouts, hang-ups |
| **Merkle proof check** (`proof.rs`, `util.rs`) | `hold`, `path_len` of a loop | `verify`, `verify_storage_proofs`, `verify_contract_proofs`, `parse_proof` | tries of every shape, two proofs linked by one hash, index arithmetic on 251 bits |
| **Stateless execution** (`exe/mod.rs`) | a copy of the head per call | `call`, the readers and writers that blockifier uses | many calls on blocking threads; untrusted answers; writes that must not stick |
| **State caches** (`exe/cache.rs`) | three global LRU caches behind mutexes | look up, put, evict | look-up, fetch and put are three critical sections; shared by calls at different heads |
| **JSON-RPC server** (`rpc.rs` 20-109, 219-282) | listener, shutdown channel, responses of a batch | serve, handle a request or a batch, `stop`, `done` | batches with notifications and failures; shutdown while requests are at work |
| **Dispatch, codecs** (`gen.rs`, generated) | none | method table, parameters by name or position, types read by trying, async and blocking clients | untagged enums whose order decides, names and orders written down four times |
| **Startup, configuration** (`config.rs`, `bin/beerus.rs` 12-22, 61-71, `client.rs` 122-135) | the statement of `main`, the configuration | read, validate, check the directory, version and chain, first head, spawn, bind | which checks reach which field, which failures are fatal |
| **Gateway signatures** (`feeder.rs` 18-76) | none | `get_pubkey`, `get_signature`: nothing calls them | the head rests on TLS alone |
| **Conversions** (`exe/map.rs`, `exe/err.rs`, `client.rs`, `Felt` and `StorageKey` of `gen.rs`) | none | felts, keys, classes and errors between four type systems | felts are compared as strings; zero has no digit of its own |
| **Web client** (`web/`) | the page's log and ids; `initialized`, `configured`, `client` in the worker; `state: Option<State>` in wasm | configure, `get_state`, `execute` | asynchronous handlers around a mutable borrow; a state fetched once; wasm loaded twice |
| **Library surface, tests** (`lib.rs`, `examples/`, `tests/`) | none | | |

**How they interact.** `main` fetches a first head, puts it in the lock, spawns the
poller and serves. The poller is the only writer of the lock. Each HTTP connection
is a task; `handle_request` walks a batch in order and `gen::handle` dispatches each
member to a method of `Context`. Most methods pass the request on to the provider.
`getStorageAt` and `call` do not: the first resolves the block id under a read guard,
asks for a value and its Merkle proof, and runs `proof.rs`; the second clones the head,
moves to a blocking thread and runs blockifier over `CachedState<StateProxy>`, which
asks the provider for what is not cached and runs the same `proof.rs` on storage values.
The clone is the only link between an execution and the poller, and the caches the only
link between executions.

**What makes each part correct.** *Poller and lock*: a reader sees a whole head; the
poller's copy is what it last stored; the head follows the gateway, also through a
reorg. *Handlers*: each takes one decision from one whole head and answers under that
decision's root; none waits forever behind the writer. *Proof check*: it accepts the
genuine proof of a written slot and refuses it for another value, and what it accepts hangs
together up to the trusted root. (It does, but for gaps below edges: see the finding
`proof_valid`.) *Caches*: keys of one block never serve another; only storage values
that verified under their own block's root (or zeros) get in; capacity and uniqueness hold under races.
*Server*: each request with an id gets its own answer, in order; stop drains and ends.
*Codecs*: what comes in goes out unchanged or is refused, and the provider is asked what the
caller meant. *Startup*: nothing is served on a configuration that a check has not seen.
*Conversions*: one element, one text, and own texts are accepted. *Web client*: each
request is answered once, in its own place, from a client that exists.

The `hazards` of `PROJECT.json` list, line by line, where each of these can go wrong in
a way that a test hardly reaches, and the property that covers it.

## 2. Modules

| module | models | kind |
| --- | --- | --- |
| `RwLock` | `tokio::sync::RwLock`: FIFO queue, dropped futures | component, external |
| `SharedHead` | the published head, blocks and block ids, the lock around them | component |
| `Poller` | the poll task and the gateway it asks | component |
| `RpcContext` | `getStorageAt`, `call` and the provider they ask | component |
| `Beerus` | `Poller` and `RpcContext` around one lock; properties; fairness | composition |
| `VerifiedReads` | what the three promise together: atomic decisions, whole heads | abstract specification |
| `ProofVerify` | `proof.rs`, one step per iteration of its loops | component |
| `MerkleTrie` | Starknet's tries and the proofs of an honest provider | reference, external |
| `LruCache` | the LRU operations of `exe/cache.rs` | operators |
| `StateReader` | `StateProxy` under `CachedState`, calls side by side | component |
| `RpcServer` | `handle_request`, dispatch, shutdown | component |
| `SnapshotReads` | what an execution promises: alone with the state of one block | abstract specification |
| `WireTypes` | how serde reads and writes structs, enums, flattened parts | operators, external |
| `GenTypes` | the types of `gen.rs` | definitions |
| `RpcMethods` | handlers, clients and the functions of `Context` | definitions |
| `Forward` | one call from its parameters to its answer | component |
| `Startup` | `main` up to serving, and the poll task's first steps | component |
| `FeltText` | field elements and storage keys as texts | component |
| `WebWorker` | page, worker and wasm client | component |
| `BeerusProofs`, `ProofVerifyProofs`, `MerkleTrieProofs`, `StateReaderProofs`, `RpcServerProofs`, `StartupProofs`, `FeltTextProofs`, `WebWorkerProofs` | theorems | proofs |
| `MCBeerus`, `MCMerkleTrie`, `MCStateReader`, `MCRpcServer`, `MCForward`, `MCStartup`, `MCFeltText`, `MCWebWorker` | small instances | model checking |

### Head and handlers: `Beerus`

`head` is the `State` inside the lock, `current` and `update` the poller's two locals,
`pollPc` the await or statement it stands at. The gateway is the variable `latest`,
which moves to any block at any time; an answer is taken at one instant and
handled later. The assignment `*guard = update.clone()` is two steps, `StoreNumber` and
`StoreRest`, so that a missing exclusion would show as a torn head; the poller's
`current = update` is a step of its own after the guard is gone.

A request is a task: `pc[r]` is the await its handler stands at, `query[r]` the method
and block id, `resolved[r]` the block id and root of its decision, `result[r]` the
value received. `AtHead`, `HeadResolution` and `HeaderMatches` are the
conditions of `resolve_block_id`, `by_number` and `by_hash`, kept apart because the code
treats a number beyond the head as the head and an older one as a matter for the
provider. An id's number is an i64, a gateway's is of 64 bits: `HasId` is `BlockNumber::try_new`, with
`MaxNumber` for the largest i64, and `RejectNumber` its error. `AskHeader` keeps the guard and `HeaderArrives` drops it, as `by_number` and
`by_hash` do: they run while `resolve_block_id` still borrows from the guard. `Disconnect`
drops the future at any await, with its guard or its place in the queue.

The provider answers any header, any value and a proof under any root, or fails.
A proof is the root it hashes to, and `Provable[root]` is the set of values that `verify` accepts, of some proof,
when it trusts this root. What `verify` does with the nodes is the business of `ProofVerify`; since it accepts more than
the slot's value, nothing is assumed of `Provable`, and `VerifiedReads` promises an answer that can be proved under
the decided root, not the true one. What is left is the link between answer and root: no value that passes only under
another head's root is ever answered. Methods that are only passed on touch no state of Beerus and are
left out here; `RpcServer` has them as handlers that end, and `Forward` follows them.

`VerifiedReads` has no lock, no poller and no waiting: `head` is a register that is
replaced whole, and each request takes one decision from it in one step. The refinement
shows the head as the poller's copy while the store is half done, forgets the
query of an idle task, and counts a value as the answer once it is verified.

### Merkle proofs: `ProofVerify`, `MerkleTrie`

`left` counts the nodes not yet processed (the code iterates in reverse), `hold` and
`pathLen` are the loop's own locals, `verdict` is the returned result or the panic of an
index or a subtraction. Hashes are symbolic terms: equal hashes come from equal inputs.
That is the collision freedom of Pedersen and Poseidon on which every Merkle proof
rests; with it comes that no hash is one of the numbers that stand for data. These are the only cryptographic assumptions of the project. The hash of an edge is a Pedersen hash plus its length
(`EdgeHash`): with a length it is a term of its own, and with none it *is* the Pedersen hash, and so the hash of a binary node.
Lengths are any i64, as in `gen.rs`, and `pathLen` wraps like one (`Wrapped`, with `MaxLen` for the largest i64) in a release build or panics in one that checks for overflow.
`EdgeFits` is the comparison that is
made for the lowest edge only; the edges above are hashed but compared neither with the
key nor with the node they should lead to, as in the code. What is claimed may be any felt, a hash too.

`GenuineProof` says of an answer, whatever the tries look like, that its nodes lie on the key's way: they use up the
whole key (`Heights`, which counts from the leaf as the code does), each binary node has what follows on the key's side,
each edge leads to what follows it, and the roots are those that are trusted. `Shown` is the value at its end, which need
not be the claimed one.

`MerkleTrie` defines the tries and an honest provider's proofs by a recursive function over
heights (`Subtries`: those of a height from all lower ones), from the
node formats of `gen.rs`, without looking at `proof.rs`; it is what the decisions are
compared with. `HonestProofDecides` also says that its proofs of written slots are genuine in this sense.
`BrokenOnlyAtGaps` says what an acceptance guarantees of any answer: value, nodes, storage root, contract state, nodes and trusted root
hang together, except at a `Gap`, below an edge that is not the lowest of its list. `NoWrittenSlotContradicted` says more of fewer answers: those whose lists
are of some way through some trie (`OnSomeWay`: each edge leads to the next node, each node takes at least one bit, together they take the
whole key), whatever slot, contract or state they were made for. The code checks none of the three conditions, and
`AcceptedIsStored`, without them, is violated (section 5).

### Executions and caches: `StateReader`, `LruCache`

`call[c]` is one execution: its block (the clone's hash), the item it wants, the value
on its way, what the contract has read so far. `cache[k]` is a sequence of entries, the
least recently used first. `Hit` and `Store` are the critical sections of the cache's
mutex and `Miss`, `ValueArrives`, `ProofArrives` what happens between them. A value that
is zero, and everything that is not storage, is stored without a proof
(`exe/mod.rs` 184). What blockifier reads and writes is arbitrary. `honest` fixes for a
whole behaviour whether the provider answers from the state of the block. `Verifies`
asks whether some answer passes `verify` under a block's root, which the constant `Provable` lists. As for the handlers,
nothing is assumed of it: in the instance it holds values that are not the state's. What the properties say is that a value
is only ever used under the root it was verified against.

`SnapshotReads` has neither caches nor fetches: a call has a block, and a read is one
look at the block's state, or, if the provider is not honest, at what can be proved under its root. The refinement mapping (`Tasks`) forgets the cache and the
statement a call stands at; a value counts as read when it is handed to the contract.

### Server: `RpcServer`

`http[p]` is one HTTP request: where its loop stands, its body, the position in the
batch, the responses so far. A request is refused by `handle` itself (`Refusal`), or
goes to a handler, which ends with a result or an error or does not end. `listener` and
`stop` are the server task and the caller of `Server::stop`; `Drain` is axum's reaction
to the signal.
`Post` is the arrival of a whole body: a client that begins one and never ends it (the `Json` extractor of `rpc.rs:221`
waits for it) is not modelled, and would keep `stop` waiting like a call that never ends.

### Generated code: `WireTypes`, `GenTypes`, `RpcMethods`, `Forward`

A type is the sequence of alternatives in the order in which serde tries them; an
alternative is a set of required and of optional fields, some of which hold one of a few
words (the tags of transactions and their versions). A value is the set of its
fields, those that are of a wrong type, and its words. `Accepts` and `Read` are serde's rules for structs,
`untagged`, `flatten` and `Option`, stated once; `GenTypes` lists the types of `gen.rs` in its
order, and `NestedTypes` of `RpcMethods` those inside a result that are read by themselves.

`RpcMethods` lists, from the code and each for itself, the parameters that a handler of the
server takes, the function it calls, what `Context` does with the call, and the parameters that each of the two
clients sends; nothing is derived from anything else, so that `Forward` can find a disagreement.
`Forward` is one call: `Ask` (the caller posts parameters in one of their forms), `Refuse` or
`Call` (the handler, `Context` and client up to the request), or `CallByItself` (Beerus asks
for itself), `Provide` and `Return`. Calls share nothing on this way, so one call stands for all.

### Startup: `Startup`

`pc` is the next statement of `main`. Each `?` is an action that ends the
process (`Fail`) and takes the poll task along. `config` is `ServerConfig` after the
defaults; `version`, `chain`, `url` and `head` are what main has found out. A URL is
the network that answers there, or what is wrong with it: that it is no URL, or that it ends with a
slash, which `GatewayClient::new` refuses. `Valid` is what `validate` really looks at,
which is `poll_secs`. `Spawn` and `PollerStarts` are apart: the task runs beside the binding of the
port, and `tokio::time::interval` panics on a period of zero.

### Texts: `FeltText`

A text is what the two patterns of `gen.rs` can tell of it: prefix, number of leading zeros, the number
that the other digits write, capitals, anything else. `Read` is `try_new` with `fix`; `Convert` is
`from_hex`, modulo the prime; `WriteFelt` is one of the three places that write a text of an element
(`exe/map.rs`, `client.rs`, `proof.rs`), `WriteKey` is `starknet_api`, whose storage keys have all 64 digits (the
one assumption about a library here). What is written is read again.

### Web client: `WebWorker`

The page has an icon (`status`), a log of pairs and a counter of ids; `inbox` and `posted` are the two
message channels, which keep the order. `handlers` has one element for every call of the worker's
`onmessage`, with the await it stands at: between two awaits it runs to completion, at an await the
others go on. `clients` holds every `Beerus` object, with the wasm instance it lives in, the block of its
state and the handler that has it borrowed. `get_state` and `execute` are asynchronous methods on `&mut self`:
wasm-bindgen takes the borrow inside the future, so that a second call while it is borrowed throws when that
future is run, where the worker's `catch` does not see it, and its promise is never settled (`Hang`). An execution that panics traps in the
wasm (`FetchedTraps`, `ExecuteTraps`): it is never answered and leaves the client borrowed. The conditions of `wrk.js:28` and `37`
stand outside of both `try` blocks and throw for a message with a `hasOwnProperty` of its own (`Throw`, the kind `shadow`).
`await init()` by two handlers loads two instances, and what was made in the
first is dead then (`Alive`): a call on it ends with an error (`Refuse`) or hangs.

## 3. Runs

| run | configuration | shows | instance | distinct states |
| --- | --- | --- | --- | --- |
| `head_safety` | `MCBeerus` | exclusion, decisions whole and standing, the poller's copy, no lost wake-up, the invariant of the proofs; `Beerus` implements `VerifiedReads` | 2 requests, 4 blocks, 4 headers, 7 queries, two values that can be proved under one root; symmetry in requests | 1,723,808 |
| `head_follows` | `MCBeerusLive` | reads end and calls start, without help from the gateway; the head follows a gateway that settles and answers | 2 requests, the 2 rivals of a reorg, 3 queries | 54,422 |
| `proof_verdicts` | `MCMerkleTrie` | verdicts on every storage trie of up to 3 slots and on every genuine proof; what an acceptance guarantees of foreign, mutilated and loose answers | 3-bit keys, every such trie, 9 states of the network, lists of up to 3 loose nodes | 61,644 |
| `proof_valid` | `MCMerkleTrieDoc` | **violated**: see findings | as above | |
| `cache_reads` | `MCStateReader` | what the caches and a call may contain, with any answers and with honest ones; what is read becomes the newest entry and the least recently used leaves first; `StateReader` implements `SnapshotReads` | 2 calls, 2 blocks, 2 slots and one item of each other kind, capacity 2 or 1, 2 accesses a call; symmetry in calls; `PairOfItems` | 597,531 |
| `reader_verifies` | `MCStateReaderDoc` | **violated**: see findings | 2 calls, 2 blocks, 2 slots | |
| `server_answers` | `MCRpcServer` | answers match requests; nothing runs after stop; batches end, stop returns | 3 HTTP requests, 6 bodies | 346,621 |
| `forward` | `MCForward` | the provider is asked what was meant, the caller gets what was answered; values keep all their fields, spoilt ones are refused | every method passed on, every function Beerus calls itself, every form of parameters, every alternative of every type and every single wrong field | 90,432 |
| `startup` | `MCStartup` | what is true once requests are served; the poller ticks | 4 command lines, 14 files, 4 environments, 3 networks | 3,190 |
| `urls_validated` | `MCStartupUrls` | **violated**: see findings | as above | |
| `felt_text` | `MCFeltText` | own texts are accepted, one form of each felt, the element is kept | base 4, 3 digits, prime 37, up to 2 leading zeros | 51,311 |
| `web_requests` | `MCWebWorker` | one answer to each request, in its place; calls never behind the shown state; a request that comes in while none is open is answered | 2 clicks, 2 messages of 6 kinds, 2 blocks | 176,853 |

The type invariants are conjuncts of the inductive invariants (`IInv`) of the proofs; TLC checks `IInv` where the
invariant ties several actors together (`Beerus`, `RpcServer`), and tlapm proves it everywhere.

**Why the bounds are enough.** *Head.* A torn or stale decision needs a head, its
successor and a reader; a lost wake-up a writer, a reader in front of it and one
behind. Two requests and the poller are those. The four blocks are a block, its
successor, the successor's rival with the same number, and one whose number no block id can have; the fourth header mixes fields
of two blocks, which only a provider would say. The queries hit every branch of
`resolve_block_id`: head, below, beyond, known and unknown hash, pending. The liveness runs
keep the two rivals (the case where comparing numbers only would fail) and one query of
each path, because liveness rules out symmetry. *Proofs.* Three bits give every relation
of two nodes of a path: binary under binary, edge under binary and the reverse,
edges of length 1 to 3, above and at the leaf. The storage tries are all subsets of
the 8 keys with at most 3 elements, beyond which paths only repeat these relations, plus
the pairs with equal values, where a swap of siblings would show. Eight states of the network have up
to three contracts in different shapes, before and after an update. A ninth has a trie of two binary nodes and two edges; its nodes, and edges of no
length, above a value, or of length `MaxLen`, are put together in every order, up to two of them below a node that hashes to the root.
`MaxLen` = 7 is beyond the width, so that lengths leave the key and add up to more than an i64. *Caches.* The race is between two
calls; two blocks distinguish keys by block, a slot that is written in one block only
gives both kinds of zero, and a capacity of 2 for four keys evicts during the race. Two
accesses are the least with which a call reads what it or the other call has stored. The
items that one behaviour touches are limited to one of three pairs (the constraint `PairOfItems`): two slots that
compete for one cache and come with proofs, or a class hash or a class (cached, without a proof) beside a nonce, which is not
cached. Caches of different kinds share nothing, so that a third item would meet no one; the theorems have no such bound.
*Server.* One batch of three has a silent, a refused and an answered member,
another begins with bad parameters and ends in a call, and three HTTP requests can be in all phases of a
shutdown at once. *Codecs.* The instance is the whole code: every type, method and form; two values of one
type carry the name of the parameter they are meant for, so that a swap shows. *Startup.* Each
configuration has at most one thing wrong, in every field and beyond either end of the
range of `poll_secs`; one unknown network. *Texts.* 4^3 = 64 texts, 32 keys and 37 elements are in the
order of 16^63, 2^251 and the prime: the prime is just above the keys and below what fits in the digits, so that there are
texts that are no element, and elements that are no key. One digit is a letter, one too many is tried. *Web.*
Two clicks are a race for `init`, two messages a call that overlaps a request for the state, two overlapping
requests, or a request whose id a failed one has left behind.

Named bounds: `MaxNumber` (block ids), `MaxLen` (edge lengths), `MaxAccesses` (accesses of one call), `Size` (cache capacity),
`Width` (key bits), `Base`, `Digits`, `MaxZeros` (texts), `MaxClicks`, `MaxMessages`, `MaxBlock` (page and
gateway), and the sets that the `MC` modules define. No counter is unbounded,
and `PairOfItems` is the only state constraint.

Deadlock is checked in the runs of `Beerus` and `StateReader`, which go on forever. It is not in
the other runs: a verification, a server, a call, a start and a session with a bounded number of clicks and messages
end.

## 4. Fairness

`FairSpec` of `Beerus` is weak fairness of the poller's own steps and of each handler's
`RpcStep`. The runtime polls a task that can go on, and the lock serves its queue in
order. `RpcStep` includes the provider's answers *or failures*, because the server's async
client has a timeout of 30 seconds (`rpc.rs` 55-60). It does not include
`ExecutionEnds`: the blocking client of an execution has no timeout (`client.rs` 77-102),
so a call may stay in `execute` forever; `CallsStart` promises no more than that it gets there.
Nor does it include `Receive` or `Disconnect`, which clients decide, or any
step of the gateway.

`HeadFollowsGateway` is stated under `GatewayFairness`: a query to the gateway is answered or fails, and is
answered again and again if it is asked again and again. This is an assumption about the environment
and not a property of the code, whose gateway client has no timeout at all (a
hazard on the list: one query that is never answered stops the poller). `ReadsEnd` and
`CallsStart` hold without it.

`FairSpec` of `RpcServer` is weak fairness of the loop, of the shutdown steps and of
handlers outside `starknet_call`, which is what `ReadsEnd` and the timeout give. Both
properties are therefore stated for requests that do not hang in a call. `HangUp` has no fairness.

`FairSpec` of `Startup` is weak fairness of the spawned task alone: tokio runs it. `main` itself may stay in any
request forever, which is why `PollerTicks` starts from serving.

`FairSpec` of `WebWorker` is weak fairness of message delivery and of whatever a handler awaits, in the wasm instance in
use. The browser sees to both, not the code: `fetch` ends, if only with an error. A promise of a replaced instance has
no fairness. `EveryRequestAnswered` starts from a request in the channel while no earlier one is open: one that comes in
behind an open one may find the client borrowed, and then hangs. It excepts a request whose own execution panics, a replaced instance, and an answer that is no
legal JSON (`wrk.js:34`); whatever is sent after the request must not matter.

## 5. Findings

* `reader_verifies`: `doc/architecture.md:96` says of the state reader that it fetches "the
  value for the provided key" and "then pulls merkle proof for the value and verifies
  that it is valid". `StateProxy::get_storage_at` returns a zero without asking for
  a proof (`exe/mod.rs:184`), so a contract can see a zero for a slot that is written.
  What does hold is `ReadsOfOneBlock`: everything but zero was verified under the root of the call's own block.
* `proof_valid` (a bug): `parse_proof` compares an edge with key and value only if it is the lowest of its list. Further up
  it sets `hold` to the edge's own hash and does not look whether the edge leads to the node it came from (`proof.rs:257`, 275-277). An edge's
  hash is a Pedersen hash plus a length that may be 0 (255-256, `gen.rs:832-836`), and then is that of a binary node; nor is it
  counted whether the whole key was used up (314). So `verify` accepts lists that are no proof of the slot: in the trace, an edge of no length with
  the children of the storage root's binary node stands above an edge it does not lead to, and value 1 passes for a slot
  that the trusted state does not have. `doc/architecture.md:96` says that the proof is verified to be valid. `BrokenOnlyAtGaps` is what holds for
  every answer, `NoWrittenSlotContradicted` what holds for nodes that are of some way. The models of handlers and
  executions assume no more of `verify` than this: their `Provable` is arbitrary.
* `urls_validated` (a bug): `client` of `ServerConfig` is not marked `#[validate(nested)]` (`config.rs:19-20`), so the
  `#[validate(url)]` of `config.rs:30-33` is never looked at by `main`; the test `wrong_urls` passes because it validates
  `config.client` itself. `ServesOnlyChecked` shows that a later request finds out before anything is served.

Observations that no run checks:

* `README.md:50-63` gives a request that shows that Beerus is up. It posts `starknet_getStateRoot`, which the dispatch does not know
  (`gen.rs:3814`), to `/`, where nothing is routed (`rpc.rs:68` routes `/rpc` only).
* `README.md:47` starts the server with `-c <file>`; `get_config` takes `-c` for the file (`bin/beerus.rs:62`).
* `index.html:43-44` tells the user to look for the error icon; the worker posts nothing when the
  configuration fails (`wrk.js:22-25`), so it never appears.
* `fix` (`gen.rs:1007-1022`) cuts leading zeros so that texts which the specification's pattern
  refuses are accepted; of a zero with two or more digits it leaves `0x`, which is refused.
* The pattern of a felt allows capitals and nothing brings them to one case; the code compares texts.
  Texts of the code's own are in small letters, and `HeldInOneForm` shows that case is the only difference there can be.
* The specification describes a storage key as up to 62 digits and 3 bits; its pattern, and with it
  `gen.rs:1651`, refuses `0x8` and accepts `0x08`. Own keys have leading zeros, and `OwnTextsAccepted` holds.
* A slot that was never written has no membership proof: where the executor takes a zero without one, `getStorageAt` asks for
  one (`rpc.rs:434`) and fails unless the nodes that there are happen to pass. No document settles which of the two is meant.

A zero that replaces a verified value in the cache (`exe/cache.rs:143`) is kept as a hazard, since no document says what is meant.

## 6. Proofs

All proofs hold for every value of the constants, under the named assumptions in the modules:
the heads are whole blocks and the sets have the stated types (`BlocksAssumption`,
`RpcAssumption`), the poller is no request (`TasksAssumption`), a key has a bit (`WidthAssumption`) and its length fits an i64 (`MaxLenAssumption`), answers are lists of
binary and edge nodes whose lengths are any i64 (`CasesAssumption`), capacities are positive
(`ReaderAssumption`), bodies are finite lists and a single request is one (`BodiesAssumption`), networks are no
mistakes (`StartupAssumption`), the base is even and the prime lies between the keys and the texts
(`TextAssumption`), bounds are numbers (`WebAssumption`), claims are about keys (`ClaimsAssumption`), tries have keys and
data, never a zero slot (`WorldsAssumption`), and nothing that an answer contains is its absence (`NoneAssumption`). TLC evaluates them in every run.

**`BeerusProofs`**. `Invariance` proves `IInv`, the inductive invariant, which
`head_safety` checks as well. The properties alone are not inductive: `DecisionStands`
survives a store only because of `GuardsInv`, which ties the guards to the program
counters (a handler that waits for a header holds a read guard, the poller that stores
holds the write guard, and the two exclude each other); `NoTornDecision` needs
`HeadInv`, which says what is in the lock at each point of the poller, half a store included; and
`HandlerInv` says which fields are set where. `NoLostWakeup` needs two more: a task is in the queue exactly while it
stands at a statement that waits for the lock (`PlacesInv`), and of any waiting tasks one has none of the others ahead (`QueueInv`, the order of the queue in a form that
survives a leave from its middle): taken for all that wait, it is the one that can go on. The step is split by the
component that moves (`TypePoll`, `TypeRpc`, `GuardsPoll`, `GuardsRpc`, `HeadPoll`,
`HandlersRpc`, ...), one case per action. From it follow `TypeCorrect`,
`ReadersExcludeStore`, `DecisionsStand`, `DecisionsWhole`, `CopyInSync` and `NoWakeupLost`.
`Implementation` proves the refinement `Spec => VerifiedReads`: a store is invisible until the guard is
dropped, a decision at the head maps to the abstract decision at that moment, and one
taken from a header maps to it when the header arrives, which is sound because
`DecisionStands` says that the comparison still holds.

**`ProofVerifyProofs`**. `LoopInvariance`: at every iteration of either loop `hold` is the
hash of the processed nodes, and each of these is tied to what is below it, down to the leaf, unless there is a gap below it; when
the second loop runs the first has been linked to the contract's root. `OnlyGapsBreak`
follows when both loops have ended: whatever the answer, and for any key width,
what is accepted hangs together from the value to the root the caller trusts, but for gaps. `Gap` is not a name for whatever fails: it
is an edge, not the lowest, whose child is another hash than the next node's. A binary node, a lowest edge, and the
links between the two lists and the trusted root are never broken.

This does not say on which side of its parent a node was taken, nor that a right proof passes. For these, `SidedInv`
says where the loop is on the key: for every assignment of heights that fits the nodes, `pathLen` is the height of what is
processed, and below it the list follows the key. (Heights need not exist for what a provider answers; where they do, nothing depends on which ones are taken.)
`GenuineDecided` is completeness: in a genuine proof `pathLen` stays below the width, the lowest node passes exactly if the claimed value
is the one that is shown (`FitMeansShown`, `MisfitRefutes`), and every further node passes (`ShownPasses`).
`AcceptedAgreed` is soundness with respect to the key: if both lists of an accepted answer are ways through some trie, of whatever slot,
contract or state, then any genuine proof of the claimed slot shows the accepted value. Its core, `SameLeaf`, walks down two lists that have one
hash at the top: were there a first place where they part (`LeastNat`), one hash would come from two nodes (`OneNode`,
`TogetherStep`). The hypothesis `OnSomeWay` is needed, all of it: the code does not compare an edge above the lowest with
the node it leads to, takes edges of no length, and does not count the bits, so that for arbitrary nodes it only guarantees what `BrokenOnlyAtGaps` says.

**`MerkleTrieProofs`** compares `verify` with the tries themselves, for any key width and any states of the network. `SubtriesEquation` shows that `Subtries` is
what its recursive equation says: were there a least height where it is not, it would follow from the lower ones. Powers of two and the prefixes of keys
have lemmas of their own (`PowerOfSum` to `PrefixEnds`), and what holds of all nodes on a way is proved one node at a time, from the leaf up.
- *Tries.* `RootDeterminesTrie`: two tries with one root are one trie; `RootDeterminesSlot`: a state root fixes the value of every slot.
- *Completeness.* `HonestIsGenuine`: what an honest provider sends of a written slot is a genuine proof, which `ProofVerifyProofs` says is decided
  rightly. Of a slot that was not written the way ends at an edge that leads elsewhere (`ProofOfAbsent`), which the comparison of the lowest
  edge refuses whatever data is claimed (`DivergingMisfits`); `AbsentInv` is the inductive invariant. From both follows `HonestDecided`.
- *Soundness.* `WrittenStands`: an accepted answer whose lists are of some way, whatever nodes these are, agrees with every written slot of the trusted
  state. Its contract list and the honest one for the address hang from one root and both take up the whole key, so that they end at the same
  leaf (`SameLeaf`, applied by `EndsAtLeaf`), the contract's state hash; this contains the storage root, and the same argument for the storage
  lists gives the slot's value (`Stands`). Without `OnSomeWay` it is false.

**`StateReaderProofs`**. All of it holds for any `Provable`, values that no state has included. `ReaderInvariance` proves `IInv`: every cached and every read value can be proved under the root of its own block or needs no proof, and so can a value about to be stored (`InFlight`, the
strengthening, without which `Store` could not preserve `CacheProven`). The lemmas
about `LruPut` and `Freshen` say that an operation adds no entry but the one it is given, and,
for `OneEntry`, that entries stay distinct and within capacity. From these come
`ReaderTypes`, `CacheIsProven`, `ReadsAreOfOneBlock`, `ExactIfHonest` and `OneEntry`.
`Isolation` proves the refinement `Spec => SnapshotReads`: a step up to the return of a value changes no task
(`HiddenStep`), and a value that is returned is therefore one of those that `SnapshotReads` can show for the block
(`ReturnsIsRead`, `FitIsViewed`).
`LeastUsedFirst` proves the action property: whatever stays in a cache keeps its place among what stays, no entry
leaves before one used less recently, and a value that is read is then the newest entry of its cache. It is proved for
`Freshen` and `LruPut` by saying where every old place goes (`RecencyByPlaces`, `FreshenRecency`, `PutRecency`), which
needs that a key has one place (`OneEntry`'s invariant), and then for each action (`StepUses`).

**`RpcServerProofs`**. `ServerInvariance` proves `IInv` of `RpcServer`. `AnswersMatch` becomes
inductive with `WorkInv` (a request in a handler was not refused, and a new one has not
begun its loop); the lemma `DueStep` counts the responses due before and after one more
request, and `PlaceBounds` says where a response stands among them. `QuietAfterStop` needs `StopInv`:
the listener ends only when no request is open, and accepts none after that.
`BatchAnswers` and `StopIsQuiet` hold for bodies of any length and any number of requests.

**`StartupProofs`**. `StartInvariance`: at each statement of `main`, which checks are behind it; one case per
statement. `OnlyCheckedServes` follows, for any networks, files and environments.

**`FeltTextProofs`**. `TextInvariance`: a text of the code's own is the element's and will be accepted (`OwnNumber`), and
what is held has the form that the pattern asks for. The lemmas `FixKeeps`, `OwnFelts`, `OwnKeys` and `MatchedForm` say what
`fix` and the patterns do to a text. `OneForm`, `OwnTextsRead` and `RoundTrip` follow, for any base, width and prime.

**`WebWorkerProofs`**. `WebInvariance` proves `IInv`: a handler is past `init` once it is in a client, and a request is on
its way only if the worker was configured (`ClientInv`, `RequestInv`); an id that is on its way is its pair's, and no later
pair has it (`IdInv`). The second is what `RequestsMeetClient` needs, the third what `OwnPairAnswers` needs: `getElementById`
finds the first pair with the id, and there is no earlier one that a message is still under way for. Any number of clicks and messages.

The second part of the module builds on this. `AnswerInvariance` proves `AnswerInv`: each request is in one place, the channel, a handler or nowhere
(`TransitInv`); a request has an answer if a handler is done with it, and then one (`PostedInv`); a pair shows one at most, which the page has
taken (`ShownInv`). `StateInv` is about blocks: a client in a fetch is borrowed by the one handler that fetches, since a second
call hangs and a trapped one stays the borrower, and its state only moves on. `OneAnswerPerRequest` and
`CallsKeepUp` follow. Counting is by the lemmas `OneMore`, `PairsInLog` and the library's theorems on cardinality.

**Only model-checked.** The liveness properties (the prover has no rule for fairness
through `ENABLED`), and the four properties of `Forward` (`AskedAsMeant`, `AnsweredAsGiven`, `WholeIsKept`, `SpoiltIsRefused`), whose
instance is the whole code, so that TLC's answer is final. Every other property of the runs that pass is also a theorem.

## 7. What is not modelled

* *blockifier*: external; it reads and writes arbitrarily.
* *Generated code*: the blocking server half (`gen.rs` 3825-5476) and the blocking client's methods that nothing calls;
  structs given as JSON arrays; failures to serialize (4001, -32603), which need a map with keys that are no strings; the
  newtypes that are only passed on (`NumAsHex`, `ChainId`, `EthAddress` and the like, one pattern each).
* *Classes* (`exe/map.rs` 34-107): decompression and the forms of contract classes, conversions between
  third-party types of data that Beerus does not look at.
* *Gateway signatures* (`feeder.rs` 18-76): nothing calls them.
* *The page's drawing and formatting*, and the synchronous requests of an execution in the browser, which
  block the worker and are those of `StateReader`. wasm-bindgen, the browser, tokio and the lru crate are external.
* *The poll task and connection tasks as panicking*, beyond what the actions `Disconnect`, `ExecutionEnds` and
  `PollerStarts` say.
* *Examples and tests*: read as statements of intent.
* *Logging and error texts*, except where the kind of error is the answer of a request.

## 8. Plan

Done, in this order, the most important first:

1. `RwLock`, `SharedHead`, `Poller`, `RpcContext`, `Beerus`, `VerifiedReads`, `BeerusProofs`.
2. `ProofVerify`, `MerkleTrie`, `ProofVerifyProofs`, `MerkleTrieProofs`.
3. `LruCache`, `StateReader`, `StateReaderProofs`.
4. `RpcServer`, `RpcServerProofs`.
5. `WireTypes`, `GenTypes`, `RpcMethods`, `Forward`.
6. `Startup`, `StartupProofs`.
7. `WebWorker`, `WebWorkerProofs`.
8. `FeltText`, `FeltTextProofs`.
9. `SnapshotReads` and the theorem `Isolation`.

Next:

10. A bound on the requests that one execution makes of the provider, stated and proved.
11. Composition of `StateReader` with `Beerus`: executions that start from the poller's heads instead of
    arbitrary blocks.
