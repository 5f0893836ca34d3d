----------------------------- MODULE SharedHead -----------------------------
(***************************************************************************)
(* What the poller and the RPC server share: the State of client.rs, a     *)
(* head block (number, hash, state root), behind an RwLock, and the block  *)
(* ids by which a request names a block.                                   *)
(***************************************************************************)
EXTENDS Naturals, RwLock

CONSTANTS
  Hashes, Roots,     \* block hashes and state roots (felts)
  Blocks,            \* the heads the feeder gateway may report
  Headers            \* the headers the RPC provider may answer with

VARIABLE head        \* the State inside the lock

State == [block_number : Nat, block_hash : Hashes, root : Roots]

ASSUME BlocksAssumption ==
  /\ Blocks \subseteq State
  /\ Headers \subseteq State

\* Variant: heads are compared by their numbers.
SameState_ByNumber(a, b) == a.block_number = b.block_number

\* PartialEq for State: all three fields count.
SameState(a, b) ==
  /\ a.block_number = b.block_number
  /\ a.root = b.root
  /\ a.block_hash = b.block_hash

BlockId ==
  [tag : {"number"}, block_number : Nat]
    \cup [tag : {"hash"}, block_hash : Hashes]
    \cup [tag : {"latest", "pending"}]

ByNumber(n) == [tag |-> "number", block_number |-> n]
ByHash(h) == [tag |-> "hash", block_hash |-> h]
Tagged(t) == [tag |-> t]
=============================================================================
