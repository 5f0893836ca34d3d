---------------------------- MODULE BeerusProofs ----------------------------
(***************************************************************************)
(* Proofs about Beerus, for any number of requests, blocks, headers and    *)
(* values.                                                                 *)
(***************************************************************************)
EXTENDS Beerus, TLAPS

-----------------------------------------------------------------------------
(* The lock. *)

\* Whatever a task does with the lock, the lock's variables keep their types.
LEMMA LockTypes ==
  ASSUME LockTypeOK, NEW t \in Tasks,
         \/ Enqueue(t) \/ AcquireRead(t) \/ AcquireWrite(t)
         \/ ReleaseRead(t) \/ ReleaseWrite(t) \/ Abandon(t) \/ UNCHANGED lockVars
  PROVE  LockTypeOK'
<1>1. CASE Enqueue(t) BY <1>1 DEF LockTypeOK, Enqueue
<1>2. CASE AcquireRead(t) BY <1>2 DEF LockTypeOK, AcquireRead, CanRead, Leave
<1>3. CASE AcquireWrite(t) BY <1>3 DEF LockTypeOK, AcquireWrite, CanWrite, Leave
<1>4. CASE ReleaseRead(t) BY <1>4 DEF LockTypeOK, ReleaseRead
<1>5. CASE ReleaseWrite(t) BY <1>5 DEF LockTypeOK, ReleaseWrite
<1>6. CASE Abandon(t) BY <1>6 DEF LockTypeOK, Abandon, Leave
<1>7. CASE UNCHANGED lockVars BY <1>7 DEF LockTypeOK, lockVars
<1>8. QED BY <1>1, <1>2, <1>3, <1>4, <1>5, <1>6, <1>7

-----------------------------------------------------------------------------
(* Types. *)

LEMMA BlockIdTypes ==
  /\ \A n \in Nat : ByNumber(n) \in BlockId
  /\ \A h \in Hashes : ByHash(h) \in BlockId
  /\ Tagged("latest") \in BlockId
  /\ AnyQuery \in Query
BY DEF BlockId, ByNumber, ByHash, Tagged, AnyQuery, Query

LEMMA TypeInit == Init => TypeOK
<1> SUFFICES ASSUME Init PROVE TypeOK OBVIOUS
<1>1. LockTypeOK BY DEF Init, LockInit, LockTypeOK
<1>2. PollTypeOK BY DEF Init, PollInit, PollTypeOK, PollPcs
<1>3. RpcTypeOK BY BlockIdTypes DEF Init, RpcInit, RpcTypeOK, Pcs
<1>4. head \in State BY BlocksAssumption DEF Init, PollInit
<1>5. QED BY <1>1, <1>2, <1>3, <1>4 DEF TypeOK

LEMMA TypePoll ==
  ASSUME TypeOK, HeadInv,
         GatewayMoves \/ GatewayAnswers \/ GatewayFails \/ PollStep,
         UNCHANGED rpcVars
  PROVE  TypeOK'
<1> USE DEF GatewayMoves, GatewayAnswers, GatewayFails, PollStep, PollRead,
    PollReadGuard, PollClone, Tick, NoChange, AskWrite, PollWriteGuard,
    StoreNumber, StoreRest, Remember, pollVars
<1>1. Poll \in Tasks BY TasksAssumption
<1>2. LockTypeOK' BY LockTypes, <1>1 DEF TypeOK
<1>3. RpcTypeOK' BY DEF TypeOK, RpcTypeOK, rpcVars
<1>4. head' \in State BY BlocksAssumption DEF TypeOK, PollTypeOK, State
<1>5. latest' \in Blocks /\ update' \in Blocks /\ pollPc' \in PollPcs
  BY DEF TypeOK, PollTypeOK, PollPcs
<1>6. current' \in Blocks BY DEF TypeOK, PollTypeOK, HeadInv
<1>7. QED BY <1>2, <1>3, <1>4, <1>5, <1>6 DEF TypeOK, PollTypeOK

\* The resolutions the handlers make are well formed.
LEMMA ResolutionTypes ==
  ASSUME RpcTypeOK, head \in State, NEW r \in Requests
  PROVE  /\ [block_id |-> ByHash(head.block_hash), root |-> head.root] \in Resolution
         /\ HeadResolution(query[r].block_id, head) \in Resolution
         /\ \A x \in Headers :
              [block_id |-> query[r].block_id, root |-> x.root] \in Resolution
<1>1. head.block_number \in Nat /\ head.block_hash \in Hashes /\ head.root \in Roots
  BY DEF State
<1>2. query[r].block_id \in BlockId BY DEF RpcTypeOK, Query
<1>3. \A x \in Headers : x.root \in Roots BY BlocksAssumption DEF State
<1>4. QED BY <1>1, <1>2, <1>3, BlockIdTypes DEF Resolution, HeadResolution

LEMMA TypeRpc ==
  ASSUME TypeOK, NEW r \in Requests, RpcNext(r), UNCHANGED <<latest, pollVars>>
  PROVE  TypeOK'
<1> USE DEF RpcNext, Receive, TakeGuard, CloneHead, ExecutionEnds, ResolveAtHead,
    RejectNumber, RejectPending, AskHeader, HeaderArrives,
    ValueArrives, ProofArrives,
    ProviderFails, Reply, Disconnect, Forget, Goto
<1>1. r \in Tasks BY TasksAssumption
<1>2. LockTypeOK' BY LockTypes, <1>1 DEF TypeOK
<1>3. PollTypeOK' BY DEF TypeOK, PollTypeOK, pollVars
<1>4. head' \in State BY DEF TypeOK
<1>5. pc' \in [Requests -> Pcs] BY DEF TypeOK, RpcTypeOK, Pcs
<1>6. query' \in [Requests -> Query]
  BY RpcAssumption, BlockIdTypes DEF TypeOK, RpcTypeOK
<1>7. result' \in [Requests -> Values \cup {None}] BY DEF TypeOK, RpcTypeOK
<1>8. resolved' \in [Requests -> Resolution \cup {None}]
  <2>1. CASE CloneHead(r) BY <2>1, ResolutionTypes DEF TypeOK, RpcTypeOK
  <2>2. CASE ResolveAtHead(r) BY <2>2, ResolutionTypes DEF TypeOK, RpcTypeOK
  <2>3. CASE HeaderArrives(r) BY <2>3, ResolutionTypes DEF TypeOK, RpcTypeOK
  <2>4. CASE ~(CloneHead(r) \/ ResolveAtHead(r) \/ HeaderArrives(r))
    <3>1. \/ UNCHANGED resolved
          \/ resolved' = [resolved EXCEPT ![r] = None]
      BY <2>4
    <3>2. QED BY <3>1 DEF TypeOK, RpcTypeOK
  <2>5. QED BY <2>1, <2>2, <2>3, <2>4
<1>9. QED BY <1>2, <1>3, <1>4, <1>5, <1>6, <1>7, <1>8 DEF TypeOK, RpcTypeOK

-----------------------------------------------------------------------------
(* Guards: the program counters tell who holds what, and the lock excludes. *)

LEMMA GuardsPoll ==
  ASSUME TypeOK, GuardsInv,
         GatewayMoves \/ GatewayAnswers \/ GatewayFails \/ PollStep,
         UNCHANGED rpcVars
  PROVE  GuardsInv'
<1> USE TasksAssumption DEF TypeOK, LockTypeOK, GuardsInv, rpcVars
<1>1. CASE PollReadGuard BY <1>1 DEF PollReadGuard, AcquireRead, CanRead, pollVars
<1>2. CASE PollClone BY <1>2 DEF PollClone, ReleaseRead
<1>3. CASE PollWriteGuard BY <1>3 DEF PollWriteGuard, AcquireWrite, CanWrite
<1>4. CASE StoreRest BY <1>4 DEF StoreRest, ReleaseWrite
<1>5. CASE GatewayMoves \/ GatewayAnswers \/ GatewayFails \/ Tick \/ NoChange
           \/ StoreNumber \/ Remember
  BY <1>5 DEF GatewayMoves, GatewayAnswers, GatewayFails, Tick, NoChange,
     StoreNumber, Remember, pollVars, lockVars
<1>6. CASE PollRead \/ AskWrite BY <1>6 DEF PollRead, AskWrite, Enqueue
<1>7. QED BY <1>1, <1>2, <1>3, <1>4, <1>5, <1>6 DEF PollStep

LEMMA GuardsRpc ==
  ASSUME TypeOK, GuardsInv, NEW r \in Requests, RpcNext(r),
         UNCHANGED <<latest, pollVars>>
  PROVE  GuardsInv'
<1> USE TasksAssumption DEF TypeOK, RpcTypeOK, LockTypeOK, GuardsInv, pollVars, Goto
<1>1. CASE Receive(r) BY <1>1 DEF Receive, Enqueue
<1>2. CASE TakeGuard(r) BY <1>2 DEF TakeGuard, AcquireRead, CanRead
<1>3. CASE CloneHead(r) BY <1>3 DEF CloneHead, ReleaseRead
<1>4. CASE ResolveAtHead(r) BY <1>4 DEF ResolveAtHead, ReleaseRead
<1>5. CASE RejectNumber(r) \/ RejectPending(r)
  BY <1>5 DEF RejectNumber, RejectPending, ReleaseRead
<1>6. CASE AskHeader(r) BY <1>6 DEF AskHeader, lockVars
<1>7. CASE HeaderArrives(r) BY <1>7 DEF HeaderArrives, ReleaseRead
<1>8. CASE ExecutionEnds(r) \/ ValueArrives(r) \/ ProofArrives(r)
  BY <1>8 DEF ExecutionEnds, ValueArrives, ProofArrives, lockVars
<1>9. CASE ProviderFails(r) BY <1>9 DEF ProviderFails, ReleaseRead
<1>10. CASE Reply(r) BY <1>10 DEF Reply, Forget, lockVars
<1>11. CASE Disconnect(r) BY <1>11 DEF Disconnect, Forget, Abandon
<1>12. QED BY <1>1, <1>2, <1>3, <1>4, <1>5, <1>6, <1>7, <1>8, <1>9, <1>10, <1>11
       DEF RpcNext

-----------------------------------------------------------------------------
(* The queue of the lock. *)

\* A task that joins at the end of the queue keeps it in order.
LEMMA QueueEnqueue ==
  ASSUME LockTypeOK, QueueInv, NEW t \in Tasks, t \notin waiting, Enqueue(t)
  PROVE  QueueInv'
<1>1. \A u \in waiting : u # t /\ ahead'[u] = ahead[u]
  BY DEF LockTypeOK, Enqueue
<1>2. waiting' = waiting \cup {t} /\ ahead'[t] = waiting BY DEF LockTypeOK, Enqueue
<1>3. \A u \in waiting' : ahead'[u] \subseteq waiting'
  BY <1>1, <1>2 DEF QueueInv
<1>4. ASSUME NEW S \in SUBSET waiting', S # {}
      PROVE  \E u \in S : ahead'[u] \cap S = {}
  <2>1. CASE S \cap waiting = {}
    <3>1. t \in S /\ ahead'[t] \cap S = {} BY <1>2, <1>4, <2>1
    <3>2. QED BY <3>1
  <2>2. CASE S \cap waiting # {}
    <3>1. PICK u \in S \cap waiting : ahead[u] \cap (S \cap waiting) = {}
      BY <2>2 DEF QueueInv
    <3>2. ahead[u] \subseteq waiting BY <3>1 DEF QueueInv
    <3>3. ahead'[u] \cap S = {} BY <1>1, <3>1, <3>2
    <3>4. QED BY <3>1, <3>3
  <2>3. QED BY <2>1, <2>2
<1>5. QED BY <1>3, <1>4 DEF QueueInv

\* So does one that leaves, from its front or from its middle.
LEMMA QueueLeave ==
  ASSUME LockTypeOK, QueueInv, NEW t \in Tasks, Leave(t)
  PROVE  QueueInv'
<1>1. waiting' = waiting \ {t} BY DEF Leave
<1>2. \A u \in waiting' : ahead'[u] = ahead[u] \ {t}
  BY <1>1 DEF LockTypeOK, Leave
<1>3. \A u \in waiting' : ahead'[u] \subseteq waiting'
  BY <1>1, <1>2 DEF QueueInv
<1>4. ASSUME NEW S \in SUBSET waiting', S # {}
      PROVE  \E u \in S : ahead'[u] \cap S = {}
  <2>1. PICK u \in S : ahead[u] \cap S = {} BY <1>1, <1>4 DEF QueueInv
  <2>2. ahead'[u] \cap S = {} BY <1>2, <2>1
  <2>3. QED BY <2>1, <2>2
<1>5. QED BY <1>3, <1>4 DEF QueueInv

\* Nor does a step that leaves the queue alone disturb it.
LEMMA QueueStays ==
  ASSUME QueueInv, UNCHANGED <<waiting, ahead>>
  PROVE  QueueInv'
BY DEF QueueInv

LEMMA QueuePoll ==
  ASSUME TypeOK, GuardsInv, PlacesInv, QueueInv,
         GatewayMoves \/ GatewayAnswers \/ GatewayFails \/ PollStep,
         UNCHANGED rpcVars
  PROVE  PlacesInv' /\ QueueInv'
<1>1. Poll \in Tasks /\ Poll \notin Requests /\ LockTypeOK
  BY TasksAssumption DEF TypeOK
<1>2. CASE PollRead \/ AskWrite
  <2>1. Enqueue(Poll) /\ Poll \notin waiting /\ Poll \notin readers
    BY <1>2 DEF PollRead, AskWrite, GuardsInv, PlacesInv
  <2>2. PlacesInv'
    BY <1>1, <1>2, <2>1 DEF PollRead, AskWrite, Enqueue, PlacesInv, rpcVars
  <2>3. QED BY <1>1, <2>1, <2>2, QueueEnqueue
<1>3. CASE PollReadGuard \/ PollWriteGuard
  <2>1. Leave(Poll)
    BY <1>3 DEF PollReadGuard, PollWriteGuard, AcquireRead, AcquireWrite
  <2>2. PlacesInv'
    BY <1>1, <1>3 DEF PollReadGuard, PollWriteGuard, AcquireRead, AcquireWrite,
       Leave, PlacesInv, pollVars, rpcVars
  <2>3. QED BY <1>1, <2>1, <2>2, QueueLeave
<1>4. CASE PollClone \/ StoreRest
  <2>1. UNCHANGED <<waiting, ahead>>
    BY <1>4 DEF PollClone, StoreRest, ReleaseRead, ReleaseWrite
  <2>2. PlacesInv'
    BY <1>1, <1>4 DEF PollClone, StoreRest, ReleaseRead, ReleaseWrite, PlacesInv,
       rpcVars
  <2>3. QED BY <2>1, <2>2, QueueStays
<1>5. CASE GatewayMoves \/ GatewayAnswers \/ GatewayFails \/ Tick \/ NoChange
           \/ StoreNumber \/ Remember
  <2>1. UNCHANGED <<waiting, ahead>> /\ PlacesInv'
    BY <1>5 DEF GatewayMoves, GatewayAnswers, GatewayFails, Tick, NoChange,
       StoreNumber, Remember, PlacesInv, pollVars, lockVars, rpcVars
  <2>2. QED BY <2>1, QueueStays
<1>6. QED BY <1>2, <1>3, <1>4, <1>5 DEF PollStep

LEMMA QueueRpc ==
  ASSUME TypeOK, GuardsInv, PlacesInv, QueueInv, NEW r \in Requests, RpcNext(r),
         UNCHANGED <<latest, pollVars>>
  PROVE  PlacesInv' /\ QueueInv'
<1> USE DEF pollVars, Goto
<1>1. r \in Tasks /\ r # Poll /\ LockTypeOK /\ pc \in [Requests -> Pcs]
  BY TasksAssumption DEF TypeOK, RpcTypeOK
<1>2. CASE Receive(r)
  <2>1. Enqueue(r) /\ r \notin waiting BY <1>2 DEF Receive, PlacesInv
  <2>2. PlacesInv' BY <1>1, <1>2 DEF Receive, Enqueue, PlacesInv
  <2>3. QED BY <1>1, <2>1, <2>2, QueueEnqueue
<1>3. CASE TakeGuard(r)
  <2>1. Leave(r) BY <1>3 DEF TakeGuard, AcquireRead
  <2>2. PlacesInv' BY <1>1, <1>3 DEF TakeGuard, AcquireRead, Leave, PlacesInv
  <2>3. QED BY <1>1, <2>1, <2>2, QueueLeave
<1>4. CASE Disconnect(r)
  <2>1. Leave(r) BY <1>4 DEF Disconnect, Abandon
  <2>2. PlacesInv' BY <1>1, <1>4 DEF Disconnect, Forget, Abandon, Leave, PlacesInv
  <2>3. QED BY <1>1, <2>1, <2>2, QueueLeave
<1>5. CASE CloneHead(r) \/ ResolveAtHead(r) \/ RejectNumber(r)
           \/ RejectPending(r) \/ HeaderArrives(r) \/ ProviderFails(r)
  <2>1. UNCHANGED <<waiting, ahead>> /\ readers' = readers \ {r}
    BY <1>5 DEF CloneHead, ResolveAtHead, RejectNumber,
      RejectPending, HeaderArrives,
       ProviderFails, ReleaseRead
  <2>2. pc[r] # "lock" /\ pc'[r] # "lock"
        /\ \A q \in Requests \ {r} : pc'[q] = pc[q]
    BY <1>1, <1>5 DEF CloneHead, ResolveAtHead, RejectNumber,
      RejectPending, HeaderArrives,
       ProviderFails
  <2>3. PlacesInv' BY <1>1, <2>1, <2>2 DEF PlacesInv
  <2>4. QED BY <2>1, <2>3, QueueStays
<1>6. CASE AskHeader(r) \/ ExecutionEnds(r) \/ ValueArrives(r) \/ ProofArrives(r)
           \/ Reply(r)
  <2>1. UNCHANGED lockVars
    BY <1>6 DEF AskHeader, ExecutionEnds, ValueArrives, ProofArrives, Reply
  <2>2. pc[r] # "lock" /\ pc'[r] # "lock"
        /\ \A q \in Requests \ {r} : pc'[q] = pc[q]
    BY <1>1, <1>6 DEF AskHeader, ExecutionEnds, ValueArrives, ProofArrives, Reply,
       Forget
  <2>3. PlacesInv' BY <2>1, <2>2 DEF PlacesInv, lockVars
  <2>4. QED BY <2>1, <2>3, QueueStays DEF lockVars
<1>7. QED BY <1>2, <1>3, <1>4, <1>5, <1>6 DEF RpcNext

-----------------------------------------------------------------------------
(* The head: only the poller writes it, and its copy keeps up with it. *)

LEMMA HeadPoll ==
  ASSUME TypeOK, HeadInv,
         GatewayMoves \/ GatewayAnswers \/ GatewayFails \/ PollStep
  PROVE  HeadInv'
<1> USE DEF HeadInv, pollVars
<1>1. head \in State /\ update \in State /\ current \in State
  BY BlocksAssumption DEF TypeOK, PollTypeOK
<1>2. CASE StoreNumber BY <1>2 DEF StoreNumber
<1>3. CASE StoreRest BY <1>1, <1>3 DEF StoreRest, State
<1>4. CASE ~(StoreNumber \/ StoreRest)
  BY <1>4 DEF PollStep, PollRead, PollReadGuard, PollClone, Tick, NoChange,
     AskWrite, PollWriteGuard, Remember, GatewayMoves, GatewayAnswers, GatewayFails
<1>5. QED BY <1>2, <1>3, <1>4

\* A handler never touches the head.
LEMMA RpcKeepsHead ==
  ASSUME NEW r \in Requests, RpcNext(r)
  PROVE  head' = head
BY DEF RpcNext, Receive, TakeGuard, CloneHead, ExecutionEnds, ResolveAtHead,
   RejectNumber, RejectPending, AskHeader, HeaderArrives,
   ValueArrives, ProofArrives,
   ProviderFails, Reply, Disconnect, Forget

\* Who holds a read guard sees one whole reported block.
LEMMA GuardedHead ==
  ASSUME TypeOK, GuardsInv, HeadInv, NEW r \in Requests,
         pc[r] \in {"resolve", "header"}
  PROVE  head \in Blocks
BY DEF TypeOK, PollTypeOK, GuardsInv, HeadInv

-----------------------------------------------------------------------------
(* The handlers. *)

LEMMA HandlersRpc ==
  ASSUME TypeOK, \A q \in Requests : HandlerInv(q), NEW r \in Requests, RpcNext(r)
  PROVE  \A q \in Requests : HandlerInv(q)'
<1> USE DEF HandlerInv, TypeOK, RpcTypeOK, Goto, Asks
<1>1. CASE Receive(r) BY <1>1 DEF Receive
<1>2. CASE TakeGuard(r) BY <1>2 DEF TakeGuard
<1>3. CASE CloneHead(r)
  <2>1. resolved'[r] \in Resolution BY <1>3, ResolutionTypes DEF CloneHead
  <2>2. QED BY <1>3, <2>1, RpcAssumption DEF CloneHead
<1>4. CASE ResolveAtHead(r)
  <2>1. resolved'[r] \in Resolution BY <1>4, ResolutionTypes DEF ResolveAtHead
  <2>2. QED BY <1>4, <2>1, RpcAssumption DEF ResolveAtHead
<1>5. CASE RejectNumber(r) \/ RejectPending(r)
  BY <1>5 DEF RejectNumber, RejectPending
<1>6. CASE AskHeader(r) BY <1>6 DEF AskHeader
<1>7. CASE HeaderArrives(r)
  <2>1. resolved'[r] \in Resolution \/ (UNCHANGED resolved /\ pc'[r] = "reply")
    BY <1>7, ResolutionTypes DEF HeaderArrives
  <2>2. QED BY <1>7, <2>1, RpcAssumption DEF HeaderArrives
<1>8. CASE ExecutionEnds(r) \/ ValueArrives(r)
  BY <1>8 DEF ExecutionEnds, ValueArrives
<1>9. CASE ProofArrives(r) BY <1>9 DEF ProofArrives
<1>10. CASE ProviderFails(r) BY <1>10 DEF ProviderFails
<1>11. CASE Reply(r) \/ Disconnect(r) BY <1>11 DEF Reply, Disconnect, Forget
<1>12. QED BY <1>1, <1>2, <1>3, <1>4, <1>5, <1>6, <1>7, <1>8, <1>9, <1>10, <1>11
       DEF RpcNext

-----------------------------------------------------------------------------
(* Decisions. *)

\* Every step with a guard held by someone waiting for a header keeps the
\* head, so that his comparison stands.
LEMMA DecisionStandsPoll ==
  ASSUME TypeOK, GuardsInv, DecisionStands,
         GatewayMoves \/ GatewayAnswers \/ GatewayFails \/ PollStep,
         UNCHANGED rpcVars
  PROVE  DecisionStands'
<1> SUFFICES ASSUME NEW r \in Requests, pc'[r] = "header"
             PROVE  ~AtHead(query'[r].block_id, head')
  BY DEF DecisionStands
<1>1. pc[r] = "header" /\ query' = query BY DEF rpcVars
<1>2. pollPc \notin {"store", "storing"} BY <1>1 DEF GuardsInv
<1>3. head' = head
  BY <1>2 DEF PollStep, PollRead, PollReadGuard, PollClone, Tick, NoChange,
     AskWrite, PollWriteGuard, StoreNumber, StoreRest, Remember, GatewayMoves,
     GatewayAnswers, GatewayFails
<1>4. QED BY <1>1, <1>3 DEF DecisionStands

LEMMA DecisionStandsRpc ==
  ASSUME TypeOK, DecisionStands, NEW r \in Requests, RpcNext(r)
  PROVE  DecisionStands'
<1> SUFFICES ASSUME NEW q \in Requests, pc'[q] = "header"
             PROVE  ~AtHead(query'[q].block_id, head')
  BY DEF DecisionStands
<1> USE DEF TypeOK, RpcTypeOK, Goto
<1>1. head' = head BY RpcKeepsHead
<1>2. CASE AskHeader(r)
  <2>1. CASE q = r BY <1>1, <1>2, <2>1 DEF AskHeader
  <2>2. CASE q # r BY <1>1, <1>2, <2>2 DEF AskHeader, DecisionStands
  <2>3. QED BY <2>1, <2>2
<1>3. CASE ~AskHeader(r)
  <2>1. q # r
    BY <1>3 DEF RpcNext, Receive, TakeGuard, CloneHead, ExecutionEnds,
       ResolveAtHead, RejectNumber, RejectPending, HeaderArrives,
       ValueArrives, ProofArrives,
       ProviderFails, Reply, Disconnect, Forget
  <2>2. pc'[q] = pc[q] /\ query'[q] = query[q]
    BY <2>1 DEF RpcNext, Receive, TakeGuard, CloneHead, ExecutionEnds,
       ResolveAtHead, RejectNumber, RejectPending, AskHeader,
       HeaderArrives, ValueArrives,
       ProofArrives, ProviderFails, Reply, Disconnect, Forget
  <2>3. QED BY <1>1, <2>2 DEF DecisionStands
<1>4. QED BY <1>2, <1>3

\* A decision from the head takes both its parts from one reported block.
LEMMA NoTornDecisionRpc ==
  ASSUME TypeOK, GuardsInv, HeadInv, NoTornDecision,
         \A q \in Requests : HandlerInv(q),
         NEW r \in Requests, RpcNext(r)
  PROVE  NoTornDecision'
<1> DEFINE FromHead(q) == Asks(q, "call") \/ query[q].block_id = Tagged("latest")
           OneBlock(q) == \E b \in Blocks :
             /\ resolved[q].root = b.root
             /\ resolved[q].block_id \in {ByNumber(b.block_number), ByHash(b.block_hash)}
<1> SUFFICES ASSUME NEW q \in Requests, resolved'[q] # None, FromHead(q)'
             PROVE  OneBlock(q)'
  BY DEF NoTornDecision
<1> USE DEF TypeOK, RpcTypeOK, Goto
<1>1. CASE q = r /\ CloneHead(r)
  <2>1. head \in Blocks BY <1>1, GuardedHead DEF CloneHead
  <2>2. resolved'[q] = [block_id |-> ByHash(head.block_hash), root |-> head.root]
    BY <1>1 DEF CloneHead
  <2>3. QED BY <2>1, <2>2
<1>2. CASE q = r /\ ResolveAtHead(r)
  <2>1. head \in Blocks BY <1>2, GuardedHead DEF ResolveAtHead
  <2>2. resolved'[q] = HeadResolution(query[q].block_id, head)
    BY <1>2 DEF ResolveAtHead
  <2>3. query[q].block_id = Tagged("latest")
    BY <1>2 DEF ResolveAtHead, Asks
  <2>4. resolved'[q] = [block_id |-> ByNumber(head.block_number), root |-> head.root]
    BY <2>2, <2>3 DEF HeadResolution, Tagged
  <2>5. QED BY <2>1, <2>4
<1>3. CASE q = r /\ HeaderArrives(r)
  <2>1. query'[q] = query[q] BY <1>3 DEF HeaderArrives
  <2>2. ~FromHead(q)
    BY <1>3 DEF HeaderArrives, HandlerInv, Asks, Tagged
  <2>3. QED BY <2>1, <2>2 DEF Asks
<1>4. CASE q # r \/ ~(CloneHead(r) \/ ResolveAtHead(r) \/ HeaderArrives(r))
  <2>1. resolved'[q] = resolved[q] /\ query'[q] = query[q]
    BY <1>4 DEF RpcNext, Receive, TakeGuard, CloneHead, ExecutionEnds,
       ResolveAtHead, RejectNumber, RejectPending, AskHeader,
       HeaderArrives, ValueArrives,
       ProofArrives, ProviderFails, Reply, Disconnect, Forget, HandlerInv
  <2>2. resolved[q] # None /\ FromHead(q) BY <2>1 DEF Asks
  <2>3. OneBlock(q) BY <2>2 DEF NoTornDecision
  <2>4. QED BY <2>1, <2>3
<1>5. QED BY <1>1, <1>2, <1>3, <1>4

-----------------------------------------------------------------------------
(* The inductive invariant. *)

LEMMA InvInit == Init => IInv
<1> SUFFICES ASSUME Init PROVE IInv OBVIOUS
<1>1. TypeOK BY TypeInit
<1>2. GuardsInv BY TasksAssumption DEF Init, LockInit, PollInit, RpcInit, GuardsInv
<1>3. HeadInv BY DEF Init, PollInit, HeadInv
<1>4. \A r \in Requests : HandlerInv(r) BY DEF Init, RpcInit, HandlerInv
<1>5. DecisionStands /\ NoTornDecision
  BY DEF Init, RpcInit, DecisionStands, NoTornDecision
<1>6. PlacesInv /\ QueueInv
  BY DEF Init, LockInit, PollInit, RpcInit, PlacesInv, QueueInv
<1>7. QED BY <1>1, <1>2, <1>3, <1>4, <1>5, <1>6 DEF IInv

LEMMA InvStep == IInv /\ [Next]_vars => IInv'
<1> SUFFICES ASSUME IInv, [Next]_vars PROVE IInv' OBVIOUS
<1> USE DEF IInv
<1>1. CASE /\ GatewayMoves \/ GatewayAnswers \/ GatewayFails \/ PollStep
           /\ UNCHANGED rpcVars
  <2>1. TypeOK' /\ GuardsInv' /\ HeadInv' /\ DecisionStands'
    BY <1>1, TypePoll, GuardsPoll, HeadPoll, DecisionStandsPoll
  <2>2. (\A r \in Requests : HandlerInv(r)') /\ NoTornDecision'
    BY <1>1 DEF rpcVars, HandlerInv, NoTornDecision, Asks
  <2>3. PlacesInv' /\ QueueInv' BY <1>1, QueuePoll
  <2>4. QED BY <2>1, <2>2, <2>3
<1>2. ASSUME NEW r \in Requests, RpcNext(r), UNCHANGED <<latest, pollVars>>
      PROVE  IInv'
  <2>1. TypeOK' /\ GuardsInv' BY <1>2, TypeRpc, GuardsRpc
  <2>2. HeadInv' BY <1>2, RpcKeepsHead DEF HeadInv, pollVars
  <2>3. (\A q \in Requests : HandlerInv(q)') /\ DecisionStands' /\ NoTornDecision'
    BY <1>2, HandlersRpc, DecisionStandsRpc, NoTornDecisionRpc
  <2>4. PlacesInv' /\ QueueInv' BY <1>2, QueueRpc
  <2>5. QED BY <2>1, <2>2, <2>3, <2>4
<1>3. CASE UNCHANGED vars
  BY <1>3 DEF vars, pollVars, rpcVars, lockVars, TypeOK, LockTypeOK, PollTypeOK,
     RpcTypeOK, GuardsInv, PlacesInv, QueueInv, HeadInv, HandlerInv, DecisionStands,
     NoTornDecision, Asks
<1>4. QED BY <1>1, <1>2, <1>3 DEF Next

\* The inductive invariant holds in every reachable state.
THEOREM Invariance == Spec => []IInv
<1>1. QED BY InvInit, InvStep, PTL DEF Spec

\* Every variable keeps its type, for any number of requests, and the poller's
\* copy and the gateway's answer are always whole reported blocks.
THEOREM TypeCorrect == Spec => []TypeOK
<1>1. IInv => TypeOK BY DEF IInv
<1>2. QED BY Invariance, <1>1, PTL

\* No handler decides on, or waits for a header with, a head that is being
\* replaced.
THEOREM ReadersExcludeStore == Spec => []NoReadWhileStoring
<1>1. IInv => NoReadWhileStoring BY DEF IInv, GuardsInv, NoReadWhileStoring
<1>2. QED BY Invariance, <1>1, PTL

\* What a handler found about the block's age is still true when the
\* provider's header arrives.
THEOREM DecisionsStand == Spec => []DecisionStands
<1>1. IInv => DecisionStands BY DEF IInv
<1>2. QED BY Invariance, <1>1, PTL

\* No decision mixes two heads.
THEOREM DecisionsWhole == Spec => []NoTornDecision
<1>1. IInv => NoTornDecision BY DEF IInv
<1>2. QED BY Invariance, <1>1, PTL

\* The poller compares with what the handlers see.
THEOREM CopyInSync == Spec => []PollerInSync
<1>1. IInv => PollerInSync BY DEF IInv, HeadInv, PollerInSync
<1>2. QED BY Invariance, <1>1, PTL

\* A queue is not held up by nobody: of the waiting tasks one is first, and
\* with the lock free it can go on.
THEOREM NoWakeupLost == Spec => []NoLostWakeup
<1>1. IInv => NoLostWakeup
  <2> SUFFICES ASSUME IInv, waiting # {}, readers = {}, writers = {}
               PROVE  \E t \in waiting : CanRead(t) /\ CanWrite(t)
    BY DEF NoLostWakeup
  <2>1. PICK t \in waiting : ahead[t] \cap waiting = {} BY DEF IInv, QueueInv
  <2>2. ahead[t] = {} BY <2>1 DEF IInv, QueueInv
  <2>3. QED BY <2>2 DEF CanRead, CanWrite
<1>2. QED BY Invariance, <1>1, PTL

-----------------------------------------------------------------------------
(* The implementation of VerifiedReads. *)

LEMMA RefinesInit == Init => Promise!SpecInit
BY DEF Init, PollInit, RpcInit, Promise!SpecInit, VisibleHead, OpenQuery, Answered

\* The poller publishes when it stores the rest; its other steps are silent.
LEMMA RefinesPoll ==
  ASSUME IInv, GatewayMoves \/ GatewayAnswers \/ GatewayFails \/ PollStep,
         UNCHANGED rpcVars
  PROVE  [Promise!SpecNext]_Promise!specVars
<1>1. UNCHANGED <<OpenQuery, resolved, Answered>>
  BY DEF rpcVars, OpenQuery, Answered
<1>2. head \in State /\ update \in State /\ update \in Blocks
  BY BlocksAssumption DEF IInv, TypeOK, PollTypeOK
<1>3. CASE StoreRest
  <2>1. VisibleHead' = update
    BY <1>2, <1>3 DEF StoreRest, VisibleHead, IInv, HeadInv, State
  <2>2. Promise!Publish BY <1>1, <1>2, <2>1 DEF Promise!Publish
  <2>3. QED BY <2>2 DEF Promise!SpecNext
<1>4. CASE ~StoreRest
  <2>1. VisibleHead' = VisibleHead
    BY <1>4 DEF VisibleHead, IInv, HeadInv, PollStep, PollRead, PollReadGuard,
       PollClone, Tick, NoChange, AskWrite, PollWriteGuard, StoreNumber, Remember,
       GatewayMoves, GatewayAnswers, GatewayFails, pollVars
  <2>2. QED BY <1>1, <2>1 DEF Promise!specVars
<1>5. QED BY <1>3, <1>4

\* A decision taken with a guard is one the abstract specification allows for
\* the head of that moment.
LEMMA RefinesDecision ==
  ASSUME IInv, NEW r \in Requests, NEW d,
         pc[r] \in {"resolve", "header"},
         \/ /\ Asks(r, "call")
            /\ d = [block_id |-> ByHash(head.block_hash), root |-> head.root]
         \/ /\ Asks(r, "getStorageAt")
            /\ AtHead(query[r].block_id, head)
            /\ d = HeadResolution(query[r].block_id, head)
         \/ /\ Asks(r, "getStorageAt")
            /\ ~AtHead(query[r].block_id, head)
            /\ \E x \in Headers :
                 /\ HeaderMatches(query[r].block_id, x, head)
                 /\ d = [block_id |-> query[r].block_id, root |-> x.root]
  PROVE  d \in Promise!Decisions(OpenQuery[r], VisibleHead)
<1> DEFINE id == query[r].block_id
<1>1. OpenQuery[r] = query[r] BY DEF OpenQuery
<1>2. VisibleHead = head BY DEF IInv, GuardsInv, VisibleHead
<1>3. id \in BlockId /\ query[r].method \in {"getStorageAt", "call"}
  BY DEF IInv, TypeOK, RpcTypeOK, Query
<1>4. head.block_number \in Nat BY DEF IInv, TypeOK, State
<1>5. CASE Asks(r, "call") 
  BY <1>1, <1>2, <1>5 DEF Promise!Decisions, Asks, ByHash
<1>6. CASE Asks(r, "getStorageAt") /\ id = Tagged("latest")
  BY <1>1, <1>2, <1>6 
  DEF Promise!Decisions, Asks, Tagged, AtHead, HeadResolution, HeaderMatches, ByNumber
<1>7. CASE Asks(r, "getStorageAt") /\ id.tag = "number"
  <2>1. id.block_number \in Nat /\ id # Tagged("latest")
    BY <1>3, <1>7 DEF BlockId, Tagged
  <2>2. QED
    BY <1>1, <1>2, <1>4, <1>7, <2>1
    DEF Promise!Decisions, Asks, AtHead, HeadResolution, HeaderMatches, ByNumber
<1>8. CASE Asks(r, "getStorageAt") /\ id.tag = "hash"
  <2>1. id # Tagged("latest") BY <1>8 DEF Tagged
  <2>2. QED
    BY <1>1, <1>2, <1>8, <2>1
    DEF Promise!Decisions, Asks, AtHead, HeadResolution, HeaderMatches
<1>9. CASE Asks(r, "getStorageAt") /\ id = Tagged("pending")
  BY <1>9 DEF Asks, Tagged, AtHead, HeaderMatches
<1>10. QED BY <1>3, <1>5, <1>6, <1>7, <1>8, <1>9 DEF BlockId, Asks, Tagged

\* A handler's step is an abstract step of its request, or silent.
LEMMA RefinesRpc ==
  ASSUME IInv, NEW r \in Requests, RpcNext(r), UNCHANGED <<latest, pollVars>>
  PROVE  [Promise!SpecNext]_Promise!specVars
<1> USE DEF IInv, TypeOK, RpcTypeOK, Goto
<1>1. VisibleHead' = VisibleHead BY RpcKeepsHead DEF VisibleHead, pollVars
<1>2. \A q \in Requests : query[q] # None BY TasksAssumption
<1>3. CASE Receive(r)
  <2>1. PICK q \in Queries : query' = [query EXCEPT ![r] = q] BY <1>3 DEF Receive
  <2>2. OpenQuery[r] = None /\ OpenQuery' = [OpenQuery EXCEPT ![r] = q]
    BY <1>3, <2>1 DEF Receive, OpenQuery
  <2>3. UNCHANGED <<resolved, Answered>> BY <1>3 DEF Receive, Answered
  <2>4. Promise!Ask(r) BY <1>1, <2>2, <2>3 DEF Promise!Ask
  <2>5. QED BY <2>4 DEF Promise!SpecNext
<1>4. ASSUME NEW d \in Promise!Decisions(OpenQuery[r], VisibleHead),
             pc[r] \in {"resolve", "header"}, NEW l \in {"value", "execute"},
             resolved' = [resolved EXCEPT ![r] = d],
             pc' = [pc EXCEPT ![r] = l], UNCHANGED <<query, result>>
      PROVE  Promise!Decide(r)
  <2>1. OpenQuery[r] # None /\ resolved[r] = None
    BY <1>2, <1>4 DEF OpenQuery, HandlerInv
  <2>2. UNCHANGED <<OpenQuery, Answered>> BY <1>4 DEF OpenQuery, Answered
  <2>3. QED BY <1>1, <1>4, <2>1, <2>2 DEF Promise!Decide
<1>5. CASE CloneHead(r)
  <2>1. [block_id |-> ByHash(head.block_hash), root |-> head.root]
          \in Promise!Decisions(OpenQuery[r], VisibleHead)
    BY <1>5, RefinesDecision DEF CloneHead
  <2>2. Promise!Decide(r) BY <1>4, <1>5, <2>1 DEF CloneHead
  <2>3. QED BY <2>2 DEF Promise!SpecNext
<1>6. CASE ResolveAtHead(r)
  <2>1. HeadResolution(query[r].block_id, head)
          \in Promise!Decisions(OpenQuery[r], VisibleHead)
    BY <1>6, RefinesDecision DEF ResolveAtHead
  <2>2. Promise!Decide(r) BY <1>4, <1>6, <2>1 DEF ResolveAtHead
  <2>3. QED BY <2>2 DEF Promise!SpecNext
<1>7. CASE HeaderArrives(r)
  <2>1. PICK x \in Headers :
          IF HeaderMatches(query[r].block_id, x, head)
          THEN /\ resolved' = [resolved EXCEPT ![r] =
                    [block_id |-> query[r].block_id, root |-> x.root]]
               /\ pc' = [pc EXCEPT ![r] = "value"]
          ELSE pc' = [pc EXCEPT ![r] = "reply"] /\ UNCHANGED resolved
    BY <1>7 DEF HeaderArrives
  <2>2. CASE HeaderMatches(query[r].block_id, x, head)
    <3>1. [block_id |-> query[r].block_id, root |-> x.root]
            \in Promise!Decisions(OpenQuery[r], VisibleHead)
      BY <1>7, <2>2, RefinesDecision DEF HeaderArrives, DecisionStands, HandlerInv
    <3>2. Promise!Decide(r) BY <1>4, <1>7, <2>1, <2>2, <3>1 DEF HeaderArrives
    <3>3. QED BY <3>2 DEF Promise!SpecNext
  <2>3. CASE ~HeaderMatches(query[r].block_id, x, head)
    <3>1. UNCHANGED OpenQuery BY <1>7, <2>1, <2>3 DEF HeaderArrives, OpenQuery
    <3>2. UNCHANGED Answered
      BY <1>7, <2>1, <2>3 DEF HeaderArrives, Answered, HandlerInv
    <3>3. QED BY <1>1, <2>1, <2>3, <3>1, <3>2 DEF Promise!specVars
  <2>4. QED BY <2>2, <2>3
<1>8. ASSUME pc[r] # "idle", pc[r] # "reply", UNCHANGED <<query, resolved>>,
             pc' = [pc EXCEPT ![r] = "reply"], NEW v \in Values \cup {None},
             result' = [result EXCEPT ![r] = v], v # None => resolved[r] # None,
             v # None /\ Asks(r, "getStorageAt") => v \in Provable[resolved[r].root]
      PROVE  [Promise!SpecNext]_Promise!specVars
  <2>1. UNCHANGED OpenQuery BY <1>8 DEF OpenQuery
  <2>2. Answered[r] = None /\ Answered' = [Answered EXCEPT ![r] = v]
    BY <1>8 DEF Answered
  <2>3. CASE v = None
    <3>1. UNCHANGED Answered BY <2>2, <2>3 DEF Answered
    <3>2. QED BY <1>1, <1>8, <2>1, <3>1 DEF Promise!specVars
  <2>4. CASE v # None
    <3>1. OpenQuery[r] = query[r] BY <1>8 DEF OpenQuery
    <3>2. Promise!Answer(r)
      BY <1>1, <1>8, <2>1, <2>2, <2>4, <3>1 DEF Promise!Answer, Asks
    <3>3. QED BY <3>2 DEF Promise!SpecNext
  <2>5. QED BY <2>3, <2>4
<1>9. CASE ExecutionEnds(r)
  <2>1. pc[r] = "execute" BY <1>9 DEF ExecutionEnds
  <2>2. Asks(r, "call") /\ resolved[r] # None BY <2>1 DEF HandlerInv
  <2>3. QED BY <1>8, <1>9, <2>1, <2>2 DEF ExecutionEnds, Asks
<1>10. CASE ProofArrives(r)
  <2>1. resolved[r] # None BY <1>10 DEF ProofArrives, HandlerInv
  <2>2. PICK p \in Roots :
          IF Verifies(p, resolved[r].root, result[r])
          THEN result' = [result EXCEPT ![r] = result[r]]
          ELSE result' = [result EXCEPT ![r] = None]
    BY <1>10 DEF ProofArrives
  <2>3. QED BY <1>8, <1>10, <2>1, <2>2 DEF ProofArrives, Verifies
<1>11. CASE ProviderFails(r)
  BY <1>8, <1>11 DEF ProviderFails
<1>12. CASE RejectNumber(r) \/ RejectPending(r)
  <2>1. result' = [result EXCEPT ![r] = None] BY <1>12
    DEF RejectNumber, RejectPending, HandlerInv
  <2>2. QED BY <1>8, <1>12, <2>1 DEF RejectNumber, RejectPending
<1>13. CASE TakeGuard(r) \/ AskHeader(r) \/ ValueArrives(r)
  <2>1. UNCHANGED <<OpenQuery, resolved>>
    BY <1>13 DEF TakeGuard, AskHeader, ValueArrives, OpenQuery
  <2>2. UNCHANGED Answered
    BY <1>13 DEF TakeGuard, AskHeader, ValueArrives, Answered
  <2>3. QED BY <1>1, <2>1, <2>2 DEF Promise!specVars
<1>14. CASE Reply(r) \/ Disconnect(r)
  <2>1. OpenQuery' = [OpenQuery EXCEPT ![r] = None]
    BY <1>14 DEF Reply, Disconnect, Forget, OpenQuery
  <2>2. Answered' = [Answered EXCEPT ![r] = None]
    BY <1>14 DEF Reply, Disconnect, Forget, Answered
  <2>3. resolved' = [resolved EXCEPT ![r] = None]
    BY <1>14 DEF Reply, Disconnect, Forget
  <2>4. Promise!Close(r) BY <1>1, <2>1, <2>2, <2>3 DEF Promise!Close
  <2>5. QED BY <2>4 DEF Promise!SpecNext
<1>15. QED
  BY <1>3, <1>5, <1>6, <1>7, <1>9, <1>10, <1>11, <1>12, <1>13, <1>14 DEF RpcNext

\* The whole implements the abstract specification: the head changes whole,
\* every request decides at one instant from one whole head, and an answered
\* getStorageAt is a value that can be proved under the decided root, whichever
\* proofs verify accepts (rpc.rs:138-216, 410-443).
THEOREM Implementation == Spec => VerifiedReads
<1>1. IInv /\ [Next]_vars => [Promise!SpecNext]_Promise!specVars
  <2>1. CASE UNCHANGED vars
    BY <2>1 DEF vars, pollVars, rpcVars, VisibleHead, OpenQuery, Answered,
       Promise!specVars
  <2>2. QED BY <2>1, RefinesPoll, RefinesRpc DEF Next
<1>2. QED BY RefinesInit, Invariance, <1>1, PTL
          DEF Spec, VerifiedReads, Promise!AbstractSpec
=============================================================================
