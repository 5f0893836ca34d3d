---------------------------- MODULE StateReader -----------------------------
(***************************************************************************)
(* The state that blockifier sees while calls execute (exe/mod.rs and      *)
(* exe/cache.rs): calls run concurrently on blocking threads, each with a  *)
(* copy of the head that was current when it began, and read through       *)
(* caches that all of them share. A read is a look into the cache, then,   *)
(* if it is not there, a request for the value, a request for its proof    *)
(* and a put; other calls step in between.                                 *)
(*                                                                         *)
(* blockifier is external: it reads and writes what it likes, MaxAccesses  *)
(* times at most. So is the provider: its answers are arbitrary, or, with  *)
(* honest = TRUE, those of the state of the block that is asked for.       *)
(***************************************************************************)
EXTENDS LruCache

CONSTANTS
  Calls,        \* calls that execute concurrently
  Blocks,       \* block hashes
  Items,        \* what can be read: <<kind, name>>
  Values,       \* values a provider may answer
  Zero,         \* the value 0x0
  Truth,        \* the state of each block: its item's value
  Provable,     \* for each block and item, the values for which some answer
                \* passes verify under the block's root
  Size,         \* capacity of each cache, by kind
  MaxAccesses   \* bound: reads and writes of one call

\* get_nonce_at is not cached, and only storage values come with a proof.
CachedKinds == {"storage", "class_hash", "contract_class"}
Kinds == CachedKinds \cup {"nonce"}
Kind(i) == i[1]

ASSUME ReaderAssumption ==
  /\ \A i \in Items : Kind(i) \in Kinds
  /\ Zero \in Values /\ Blocks # {} /\ Items # {}
  /\ Truth \in [Blocks -> [Items -> Values]]
  /\ Provable \in [Blocks -> [Items -> SUBSET Values]]
  /\ Size \in [CachedKinds -> Nat \ {0}]
  /\ MaxAccesses \in Nat

VARIABLES
  honest,       \* does the provider answer from the state of the block?
  cache,        \* [CachedKinds -> entries, the least recently used first]
  call          \* [Calls -> the state of a call]

vars == <<honest, cache, call>>

\* No call; the other fields have no meaning then.
Idle == [pc |-> "idle", block |-> CHOOSE b \in Blocks : TRUE,
         item |-> CHOOSE i \in Items : TRUE, value |-> Zero, left |-> 0, reads |-> {}]

Init ==
  /\ honest \in BOOLEAN
  /\ cache = [k \in CachedKinds |-> <<>>]
  /\ call = [c \in Calls |-> Idle]

\* Is there an answer that verify accepts for the value? Nothing is assumed of what
\* verify accepts: it is MerkleTrie that says it, and not only true values are
\* (its AcceptedIsStored).
Verifies(b, i, v) == v \in Provable[b][i]

-----------------------------------------------------------------------------
(* One call. *)

\* A call begins with a copy of a head.
Start(c) ==
  /\ call[c].pc = "idle"
  /\ \E b \in Blocks :
       call' = [call EXCEPT ![c] = [Idle EXCEPT !.block = b, !.pc = "run", !.left = MaxAccesses]]
  /\ UNCHANGED <<honest, cache>>

Accesses(c) == call[c].pc = "run" /\ call[c].left > 0

\* The value of a read reaches the contract.
Returns(c, i, v) ==
  call' = [call EXCEPT ![c].pc = "run", ![c].left = @ - 1,
                       ![c].reads = @ \cup {[item |-> i, value |-> v]}]

\* Variant: the value is looked at where it is (peek).
Hit_Peeks(c) ==
  /\ Accesses(c)
  /\ \E i \in Items :
       /\ Kind(i) \in CachedKinds
       /\ \E n \in Places(cache[Kind(i)], call[c].block, i) :
            Returns(c, i, cache[Kind(i)][n].value)
  /\ UNCHANGED <<honest, cache>>

\* The value is in the cache, and becomes the most recently used one.
Hit(c) ==
  /\ Accesses(c)
  /\ \E i \in Items :
       /\ Kind(i) \in CachedKinds
       /\ \E n \in Places(cache[Kind(i)], call[c].block, i) :
            LET e == cache[Kind(i)][n]
            IN  /\ cache' = [cache EXCEPT ![Kind(i)] = Freshen(@, n, e)]
                /\ Returns(c, i, e.value)
  /\ UNCHANGED honest

\* It is not, or is of a kind that is never cached: the provider is asked.
Miss(c) ==
  /\ Accesses(c)
  /\ \E i \in Items :
       /\ Kind(i) \in CachedKinds => Places(cache[Kind(i)], call[c].block, i) = {}
       /\ call' = [call EXCEPT ![c].pc = "fetch", ![c].item = i]
  /\ UNCHANGED <<honest, cache>>

NeedsProof(i, v) == Kind(i) = "storage" /\ v # Zero

\* Variant: the value is cached as soon as it is there.
ValueArrives_StoredAtOnce(c) ==
  /\ call[c].pc = "fetch"
  /\ \E v \in Values :
       LET i == call[c].item
       IN  /\ honest => v = Truth[call[c].block][i]
           /\ call' = [call EXCEPT ![c].value = v,
                                   ![c].pc = IF NeedsProof(i, v) THEN "prove" ELSE "store"]
           /\ cache' = IF Kind(i) \notin CachedKinds THEN cache
                       ELSE [cache EXCEPT ![Kind(i)] =
                               LruPut(@, Size[Kind(i)], CacheEntry(call[c].block, i, v))]
  /\ UNCHANGED honest

\* A value arrives. No proof is asked for a zero, or for anything but storage.
ValueArrives(c) ==
  /\ call[c].pc = "fetch"
  /\ \E v \in Values :
       /\ honest => v = Truth[call[c].block][call[c].item]
       /\ call' = [call EXCEPT ![c].value = v,
                               ![c].pc = IF NeedsProof(call[c].item, v)
                                         THEN "prove" ELSE "store"]
  /\ UNCHANGED <<honest, cache>>

\* Variant: the root is that of whatever head is current.
ProofArrives_LatestRoot(c) ==
  /\ call[c].pc = "prove"
  /\ \E b \in Blocks : Verifies(b, call[c].item, call[c].value)
  /\ call' = [call EXCEPT ![c].pc = "store"]
  /\ UNCHANGED <<honest, cache>>

\* A proof arrives that verifies under the root of the call's block. It is the root
\* that ties a value to the block: what cannot be proved under it never passes.
ProofArrives(c) ==
  /\ call[c].pc = "prove"
  /\ Verifies(call[c].block, call[c].item, call[c].value)
  /\ call' = [call EXCEPT ![c].pc = "store"]
  /\ UNCHANGED <<honest, cache>>

\* The inner reader has returned: the value is put into the cache if its kind
\* has one, and goes on to the contract.
Store(c) ==
  /\ call[c].pc = "store"
  /\ LET i == call[c].item
         e == CacheEntry(call[c].block, i, call[c].value)
     IN  /\ cache' = IF Kind(i) \notin CachedKinds THEN cache
                     ELSE [cache EXCEPT ![Kind(i)] = LruPut(@, Size[Kind(i)], e)]
         /\ Returns(c, i, e.value)
  /\ UNCHANGED honest

\* Variant: what a contract writes goes into the cache.
Write_Through(c) ==
  /\ Accesses(c)
  /\ \E i \in Items, v \in Values :
       /\ Kind(i) \in CachedKinds
       /\ cache' = [cache EXCEPT ![Kind(i)] =
                      LruPut(@, Size[Kind(i)], CacheEntry(call[c].block, i, v))]
  /\ call' = [call EXCEPT ![c].left = @ - 1]
  /\ UNCHANGED honest

\* Whatever a contract writes is dropped.
Write(c) ==
  /\ Accesses(c)
  /\ call' = [call EXCEPT ![c].left = @ - 1]
  /\ UNCHANGED <<honest, cache>>

\* The provider fails or its proof does not verify, and the call fails with it.
Fails(c) ==
  /\ call[c].pc \in {"fetch", "prove"}
  /\ call' = [call EXCEPT ![c] = Idle]
  /\ UNCHANGED <<honest, cache>>

\* The call is done: it returns, or fails by itself (get_compiled_class_hash
\* always does that).
Finish(c) ==
  /\ call[c].pc = "run"
  /\ call' = [call EXCEPT ![c] = Idle]
  /\ UNCHANGED <<honest, cache>>

CallNext(c) ==
  \/ Start(c) \/ Hit(c) \/ Miss(c) \/ ValueArrives(c) \/ ProofArrives(c) \/ Store(c)
  \/ Write(c) \/ Fails(c) \/ Finish(c)

Next == \E c \in Calls : CallNext(c)

Spec == Init /\ [][Next]_vars

\* The behaviours in which the provider is honest.
HonestInit == Init /\ honest = TRUE
HonestSpec == HonestInit /\ [][Next]_vars

-----------------------------------------------------------------------------
(* Properties. *)

Entry == [block : Blocks, item : Items, value : Values]

Entries(k) == {cache[k][n] : n \in 1..Len(cache[k])}

TypeOK ==
  /\ honest \in BOOLEAN
  /\ cache \in [CachedKinds -> Seq(Entry)]
  /\ \A k \in CachedKinds : \A e \in Entries(k) : Kind(e.item) = k
  /\ call \in [Calls -> [pc : {"idle", "run", "fetch", "prove", "store"},
                         block : Blocks, item : Items, value : Values,
                         left : 0..MaxAccesses,
                         reads : SUBSET [item : Items, value : Values]]]
  /\ \A c \in Calls : call[c].pc \in {"fetch", "prove", "store"} => call[c].left > 0

\* Two calls that miss the same key both put it, in either order: there is still
\* one entry of it, and never more than the cache's capacity (cache.rs:28-31).
OneEntryPerKey ==
  \A k \in CachedKinds :
    /\ Len(cache[k]) <= Size[k]
    /\ \A m, n \in 1..Len(cache[k]) :
         m # n => \/ cache[k][m].block # cache[k][n].block
                  \/ cache[k][m].item # cache[k][n].item

\* From s to t no entry is lost but the least recently used one of a full cache,
\* and of two entries the one used later stays behind the other, unless the other
\* is the one that is used now.
RecencyKept(s, t, size) ==
  LET At(n) == Places(t, s[n].block, s[n].item)
  IN  /\ \A n \in 1..Len(s) : At(n) = {} => n = 1 /\ Len(s) = size
      /\ \A m, n \in 1..Len(s) : m < n => \A p \in At(m), q \in At(n) : p < q \/ p = Len(t)

Newest(s, e) == s # <<>> /\ s[Len(s)] = e

\* Whichever calls look up and put between a miss and its put: what a call reads
\* becomes the most recently used entry, and nothing leaves a cache before what
\* was used less recently (cache.rs:28-31, 139-146).
LeastUsedLeaves ==
  [][/\ \A k \in CachedKinds : RecencyKept(cache[k], cache'[k], Size[k])
     /\ \A c \in Calls : \A r \in call'[c].reads \ call[c].reads :
          Kind(r.item) \in CachedKinds =>
            Newest(cache'[Kind(r.item)], CacheEntry(call[c].block, r.item, r.value))]_vars

\* Could v pass for the item: no proof is asked for it, or some proof verifies?
Proven(b, i, v) == NeedsProof(i, v) => Verifies(b, i, v)

\* However the calls race for the cache and whatever they write, a storage value
\* in it that is not zero is one that can be proved under the root of the entry's
\* block, not only under that of another block (exe/cache.rs:142-146,
\* exe/mod.rs:184-201).
CacheProven ==
  \A k \in CachedKinds : \A e \in Entries(k) : Proven(e.block, e.item, e.value)

\* All the storage values a call has seen can be proved under the root of the one
\* block it began with, unless they are zero: they were verified under that root by
\* the call itself, or by the one that cached them (exe/cache.rs:142-146,
\* exe/mod.rs:184-201).
ReadsOfOneBlock ==
  \A c \in Calls : \A r \in call[c].reads : Proven(call[c].block, r.item, r.value)

\* With an honest provider the caches cannot be told from the state itself:
\* every read of every kind is exactly the value in the call's block.
ExactWhenHonest ==
  honest =>
    /\ \A k \in CachedKinds : \A e \in Entries(k) : e.value = Truth[e.block][e.item]
    /\ \A c \in Calls : \A r \in call[c].reads : r.value = Truth[call[c].block][r.item]

\* Values on their way through a call are proven before they are stored.
InFlight ==
  \A c \in Calls :
    /\ call[c].pc = "store" => Proven(call[c].block, call[c].item, call[c].value)
    /\ honest /\ call[c].pc \in {"prove", "store"} =>
         call[c].value = Truth[call[c].block][call[c].item]

\* The inductive invariant: what is cached, read and on its way.
IInv == TypeOK /\ CacheProven /\ ReadsOfOneBlock /\ ExactWhenHonest /\ InFlight

-----------------------------------------------------------------------------
(* What it implements: a value is read when it is handed to the contract.   *)

Task(r) == [pc |-> IF r.pc = "idle" THEN "idle" ELSE "run", block |-> r.block,
            left |-> r.left, reads |-> r.reads]

Tasks == [c \in Calls |-> Task(call[c])]

Promise == INSTANCE SnapshotReads WITH task <- Tasks

\* With caches that all calls share, proofs that arrive late and writes that are
\* dropped, each call reads as if it were alone with what can be proved of its block
\* (exe/cache.rs:134-202, exe/mod.rs:168-331).
SnapshotReads == Promise!SnapshotSpec

-----------------------------------------------------------------------------
\* doc/architecture.md:96 of the StateReader: it fetches the value for a key "and
\* then pulls merkle proof for the value and verifies that it is valid". Then
\* every storage value a contract sees would be one for which some proof verifies.
EveryValueVerified ==
  \A c \in Calls : \A r \in call[c].reads :
    Kind(r.item) = "storage" => r.value \in Provable[call[c].block][r.item]
=============================================================================
