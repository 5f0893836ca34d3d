--------------------------- MODULE VerifiedReads ----------------------------
(***************************************************************************)
(* What the poller, the lock and the handlers promise together: the head   *)
(* is a register that is replaced whole, and each request takes one        *)
(* decision from one whole head, at one instant between its arrival and    *)
(* its answer.  An answered getStorageAt is a value that can be proved     *)
(* under the root of that decision.  There is no lock, no waiting and no   *)
(* poller here.                                                            *)
(***************************************************************************)
EXTENDS Naturals

CONSTANTS Blocks, Headers, Requests, Queries, Values, Provable, None

VARIABLES
  head,       \* the published head
  query,      \* query[r]: what the open request r asks, None when idle
  resolved,   \* resolved[r]: the decision taken for r, None before
  answer      \* answer[r]: the value r is answered, None before or on error

specVars == <<head, query, resolved, answer>>

\* The block ids of the decision agree with what was asked, and the root is
\* the head's root unless the block asked for is older than the head.
Decisions(q, h) ==
  LET id == q.block_id
      atHead == [block_id |-> [tag |-> "number", block_number |-> h.block_number],
                 root |-> h.root]
  IN  CASE q.method = "call" ->
             {[block_id |-> [tag |-> "hash", block_hash |-> h.block_hash],
               root |-> h.root]}
        [] q.method # "call" /\ id.tag = "latest" -> {atHead}
        [] q.method # "call" /\ id.tag = "number" ->
             IF id.block_number >= h.block_number THEN {atHead}
             ELSE {[block_id |-> id, root |-> x.root] :
                     x \in {y \in Headers : y.block_number = id.block_number}}
        [] q.method # "call" /\ id.tag = "hash" ->
             IF id.block_hash = h.block_hash
             THEN {[block_id |-> id, root |-> h.root]}
             ELSE {[block_id |-> id, root |-> x.root] :
                     x \in {y \in Headers : /\ y.block_hash = id.block_hash
                                            /\ y.block_number < h.block_number}}
        [] q.method # "call" /\ id.tag = "pending" -> {}

SpecInit ==
  /\ head \in Blocks
  /\ query = [r \in Requests |-> None]
  /\ resolved = [r \in Requests |-> None]
  /\ answer = [r \in Requests |-> None]

Publish ==
  /\ head' \in Blocks
  /\ UNCHANGED <<query, resolved, answer>>

Ask(r) ==
  /\ query[r] = None
  /\ \E q \in Queries : query' = [query EXCEPT ![r] = q]
  /\ UNCHANGED <<head, resolved, answer>>

Decide(r) ==
  /\ query[r] # None
  /\ resolved[r] = None
  /\ \E d \in Decisions(query[r], head) : resolved' = [resolved EXCEPT ![r] = d]
  /\ UNCHANGED <<head, query, answer>>

\* A call's result is the executor's affair; a read's passes verify.
Answer(r) ==
  /\ resolved[r] # None
  /\ answer[r] = None
  /\ \E v \in Values :
       /\ query[r].method = "getStorageAt" => v \in Provable[resolved[r].root]
       /\ answer' = [answer EXCEPT ![r] = v]
  /\ UNCHANGED <<head, query, resolved>>

\* Answered, refused, failed or hung up.
Close(r) ==
  /\ query' = [query EXCEPT ![r] = None]
  /\ resolved' = [resolved EXCEPT ![r] = None]
  /\ answer' = [answer EXCEPT ![r] = None]
  /\ UNCHANGED head

SpecNext ==
  \/ Publish
  \/ \E r \in Requests : Ask(r) \/ Decide(r) \/ Answer(r) \/ Close(r)

AbstractSpec == SpecInit /\ [][SpecNext]_specVars
=============================================================================
