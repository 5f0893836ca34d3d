------------------------------ MODULE MCBeerus ------------------------------
(***************************************************************************)
(* Small instances of Beerus. Three real blocks: b1, its successor b2, and *)
(* b2x, which replaces b2 in a reorg (same number), and b4, with a number  *)
(* no block id can have. The provider may also answer with a header that   *)
(* mixes fields of different blocks. Under one root two values can be      *)
(* proved.                                                                 *)
(***************************************************************************)
EXTENDS Beerus, TLC

CONSTANTS h1, h2, h3, s1, s2, s3, v0, v1, v2

Block(n, h, s) == [block_number |-> n, block_hash |-> h, root |-> s]
b1 == Block(1, h1, s1)
b2 == Block(2, h2, s2)
b2x == Block(2, h3, s3)
b4 == Block(4, h3, s3)

MCHashes == {h1, h2, h3}
MCRoots == {s1, s2, s3}
MCBlocks == {b1, b2, b2x, b4}
MCHeaders == {b1, b2, b2x, Block(1, h2, s3)}
MCTasks == Requests \cup {Poll}
MCValues == {v0, v1, v2}
MCProvable == s1 :> {v0} @@ s2 :> {v1, v2} @@ s3 :> {v2}

Read(id) == [method |-> "getStorageAt", block_id |-> id]
Call == [method |-> "call", block_id |-> Tagged("latest")]

MCQueries ==
  {Call, Read(Tagged("latest")), Read(Tagged("pending")),
   Read(ByNumber(1)), Read(ByNumber(3)), Read(ByHash(h1)), Read(ByHash(h2))}

\* The two rivals of a reorg and three queries, for the liveness run.
FewBlocks == {b2, b2x}
FewQueries == {Call, Read(Tagged("latest")), Read(ByNumber(1))}
FewHeaders == {b1}

RequestSymmetry == Permutations(Requests)
=============================================================================
