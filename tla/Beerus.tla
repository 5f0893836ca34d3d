------------------------------- MODULE Beerus -------------------------------
(***************************************************************************)
(* The beerus binary once it serves requests: the poller that follows the  *)
(* chain and the RPC handlers that read the head it publishes, around one  *)
(* RwLock (bin/beerus.rs, rpc.rs).                                         *)
(***************************************************************************)
EXTENDS Poller, RpcContext

vars == <<latest, head, pollVars, rpcVars, lockVars>>

ASSUME TasksAssumption ==
  /\ Poll \notin Requests
  /\ Tasks = Requests \cup {Poll}
  /\ None \notin Query

Init == LockInit /\ PollInit /\ RpcInit

Next ==
  \/ (GatewayMoves \/ GatewayAnswers \/ GatewayFails \/ PollStep) /\ UNCHANGED rpcVars
  \/ \E r \in Requests : RpcNext(r) /\ UNCHANGED <<latest, pollVars>>

Spec == Init /\ [][Next]_vars

-----------------------------------------------------------------------------
(* The fairness of the build: every task is polled when it can go on, and  *)
(* every query of the server's client ends (30 s timeout, rpc.rs:55-60).   *)
(* That the gateway goes on answering is an assumption about the network:  *)
(* its client has no timeout.                                              *)

Fairness ==
  /\ WF_vars(PollStep /\ UNCHANGED rpcVars)
  /\ \A r \in Requests : WF_vars(RpcStep(r) /\ UNCHANGED <<latest, pollVars>>)

GatewayFairness ==
  /\ WF_vars((GatewayAnswers \/ GatewayFails) /\ UNCHANGED rpcVars)
  /\ SF_vars(GatewayAnswers /\ UNCHANGED rpcVars)

FairSpec == Spec /\ Fairness

-----------------------------------------------------------------------------
(* Safety                                                                  *)

\* Every variable has its type. The head is a State at every moment, the half
\* stored one of bin/beerus.rs:34 included.
TypeOK == LockTypeOK /\ PollTypeOK /\ RpcTypeOK /\ head \in State

\* No handler looks at the head while the poller stores a new one, neither
\* where it decides nor while it waits for a header with its guard
\* (rpc.rs:142, bin/beerus.rs:34).
NoReadWhileStoring ==
  \A r \in Requests : pc[r] \in {"resolve", "header"} => pollPc \notin {"store", "storing"}

\* A handler that found the block older than the head, and went to the
\* provider for its header, is still right about it when the header arrives:
\* the head it compared with has not been replaced under it (rpc.rs:142-156).
DecisionStands ==
  \A r \in Requests : pc[r] = "header" => ~AtHead(query[r].block_id, head)

\* The block id and the root of a decision taken from the head, and those of a
\* call's copy, are of one and the same block that the gateway reported: never
\* the number of one head and the root of another (rpc.rs:149-153, 290).
NoTornDecision ==
  \A r \in Requests :
    resolved[r] # None /\ (Asks(r, "call") \/ query[r].block_id = Tagged("latest")) =>
      \E b \in Blocks :
        /\ resolved[r].root = b.root
        /\ resolved[r].block_id \in {ByNumber(b.block_number), ByHash(b.block_hash)}

\* Whenever the poller compares an answer with its own copy, that copy is the
\* head the handlers see, so that no change of the chain is taken for no
\* change (bin/beerus.rs:29-35).
PollerInSync ==
  pollPc \in {"tick", "ask", "compare", "write", "store"} => current = head

\* The lock never keeps tasks waiting while nobody holds it, whoever gives up
\* his place in the queue.
NoLostWakeup ==
  waiting # {} /\ readers = {} /\ writers = {} =>
    \E t \in waiting : CanRead(t) /\ CanWrite(t)

-----------------------------------------------------------------------------
(* The inductive invariant of BeerusProofs.                                *)

\* Program counters and guards say the same, and the lock excludes.
GuardsInv ==
  /\ \A r \in Requests : r \in readers <=> pc[r] \in {"resolve", "header"}
  /\ Poll \in readers => pollPc = "read"
  /\ writers = IF pollPc \in {"store", "storing"} THEN {Poll} ELSE {}
  /\ writers # {} => readers = {}

\* Who stands at an await of the lock has his place in its queue, and nobody
\* else has.
PlacesInv ==
  /\ \A r \in Requests : r \in waiting <=> pc[r] = "lock"
  /\ Poll \in waiting <=>
       (pollPc = "write" \/ (pollPc = "read" /\ Poll \notin readers))

\* The order of the queue, said so that it survives a leave from its middle:
\* who is ahead of a waiting task waits too, and of any waiting tasks one has
\* none of the others ahead.
QueueInv ==
  /\ \A t \in waiting : ahead[t] \subseteq waiting
  /\ \A S \in SUBSET waiting : S # {} => \E t \in S : ahead[t] \cap S = {}

\* What is in the lock at each point of the poller.
HeadInv ==
  /\ pollPc \notin {"storing", "remember"} => head = current
  /\ pollPc = "storing" => head = [current EXCEPT !.block_number = update.block_number]
  /\ pollPc = "remember" => head = update

\* What a handler has at each of its points.
HandlerInv(r) ==
  /\ pc[r] \in {"idle", "lock", "resolve", "header"} => resolved[r] = None
  /\ pc[r] \in {"value", "proof", "execute"} => resolved[r] # None
  /\ pc[r] \notin {"proof", "reply"} => result[r] = None
  /\ result[r] # None => resolved[r] # None
  /\ pc[r] \in {"header", "value", "proof"} => Asks(r, "getStorageAt")
  /\ pc[r] = "execute" => Asks(r, "call")
  /\ pc[r] = "header" => query[r].block_id.tag \in {"number", "hash"}
  /\ pc[r] # "idle" => query[r] \in Queries

\* The parts together with the properties that are proved inductively.
IInv ==
  /\ TypeOK
  /\ GuardsInv
  /\ PlacesInv
  /\ QueueInv
  /\ HeadInv
  /\ \A r \in Requests : HandlerInv(r)
  /\ DecisionStands
  /\ NoTornDecision

-----------------------------------------------------------------------------
(* Implementation of the abstract specification. Half way through a store  *)
(* nobody can look: the head is then still the one before, which the       *)
(* poller has in its copy.                                                 *)

VisibleHead == IF pollPc = "storing" THEN current ELSE head

\* An idle task has no query; a value counts as answered once it is verified.
OpenQuery == [r \in Requests |-> IF pc[r] = "idle" THEN None ELSE query[r]]
Answered == [r \in Requests |-> IF pc[r] = "reply" THEN result[r] ELSE None]

Promise == INSTANCE VerifiedReads WITH
  head <- VisibleHead, query <- OpenQuery, resolved <- resolved, answer <- Answered

\* The lock, the poller and the handlers together behave as if each request
\* decided at one instant from one whole head, and an answered getStorageAt is a
\* value that can be proved under the decided root, under no other
\* (rpc.rs:138-216, 410-443).
VerifiedReads == Promise!AbstractSpec

-----------------------------------------------------------------------------
(* Liveness                                                                *)

\* When the chain settles on a block and the gateway keeps answering, the head
\* settles on it too, however many slow reads come and go (bin/beerus.rs:30-42).
HeadFollowsGateway ==
  GatewayFairness => \A b \in Blocks : <>[](latest = b) => <>[](VisibleHead = b)

\* Every getStorageAt ends, also behind a waiting writer and slow readers, and
\* whether or not the gateway ever answers again (rpc.rs:410-443).
ReadsEnd ==
  \A r \in Requests : pc[r] # "idle" /\ Asks(r, "getStorageAt") ~> pc[r] = "idle"

\* Every call gets its copy of the head and starts to execute (rpc.rs:284-296).
CallsStart ==
  \A r \in Requests : pc[r] = "lock" /\ Asks(r, "call") ~> pc[r] \in {"execute", "idle"}
=============================================================================
