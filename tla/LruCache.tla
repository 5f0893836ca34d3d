------------------------------ MODULE LruCache ------------------------------
(***************************************************************************)
(* The least-recently-used caches of exe/cache.rs. A cache is a sequence   *)
(* of entries, the least recently used one first. Each operation here runs *)
(* under the cache's mutex, so it is one step; the mutex is never held     *)
(* longer. The lru crate is external.                                      *)
(***************************************************************************)
EXTENDS Integers, SequencesExt

\* A value that was read for an item of the state of a block.
CacheEntry(b, i, v) == [block |-> b, item |-> i, value |-> v]

\* Variant: the key does not contain the block.
SameKey_AnyBlock(e, b, i) == e.item = i

\* The keys: block hash and contract address, storage key or class hash.
SameKey(e, b, i) == e.block = b /\ e.item = i

Places(s, b, i) == {n \in 1..Len(s) : SameKey(s[n], b, i)}

\* The entry at n becomes the most recently used one and holds e.
Freshen(s, n, e) == Append(RemoveAt(s, n), e)

\* Variant: an entry with the same key is not looked for.
LruPut_Appends(s, size, e) == IF Len(s) >= size THEN Append(Tail(s), e) ELSE Append(s, e)

LruPut(s, size, e) ==
  LET old == Places(s, e.block, e.item)
  IN  IF old # {} THEN Freshen(s, CHOOSE n \in old : TRUE, e)
      ELSE IF Len(s) >= size THEN Append(Tail(s), e)
      ELSE Append(s, e)
=============================================================================
