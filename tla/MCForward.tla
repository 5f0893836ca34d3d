----------------------------- MODULE MCForward ------------------------------
(* Every method that the context passes on, every function that Beerus     *)
(* calls by itself.                                                        *)
EXTENDS Forward

MCAsked == {m \in DOMAIN Handlers : Handlers[m].fn \in DOMAIN Context}
MCOwn == {"getProof", "getClass", "getClassHashAt", "getNonce", "getStorageAt",
          "getBlockWithTxHashes", "specVersion", "chainId"}
=============================================================================
