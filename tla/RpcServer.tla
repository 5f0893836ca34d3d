----------------------------- MODULE RpcServer ------------------------------
(***************************************************************************)
(* The JSON-RPC server around the handlers (rpc.rs, dispatch in gen.rs):   *)
(* HTTP requests with one request or a batch, notifications, the dispatch  *)
(* by method name, and the graceful shutdown of axum::serve. What a        *)
(* handler does is RpcContext's matter: here it ends with a result or an   *)
(* error, or never.                                                        *)
(***************************************************************************)
EXTENDS Naturals, Sequences, FiniteSets

CONSTANTS
  Posts,       \* HTTP requests
  Bodies,      \* what may be posted: [kind, reqs], kind one of BodyKinds
  None         \* the id of a notification

BodyKinds == {"single", "batch", "malformed"}

\* A request of JSON-RPC; its parameters are those of its method or not.
RpcRequest(id, method, params) == [id |-> id, method |-> method, params |-> params]

\* The names that handle knows.
Methods ==
  {"pathfinder_getProof", "pathfinder_getTxStatus", "pathfinder_version",
   "starknet_addDeclareTransaction", "starknet_addDeployAccountTransaction",
   "starknet_addInvokeTransaction", "starknet_blockHashAndNumber", "starknet_blockNumber",
   "starknet_call", "starknet_chainId", "starknet_estimateFee", "starknet_estimateMessageFee",
   "starknet_getBlockTransactionCount", "starknet_getBlockWithReceipts",
   "starknet_getBlockWithTxHashes", "starknet_getBlockWithTxs", "starknet_getClass",
   "starknet_getClassAt", "starknet_getClassHashAt", "starknet_getEvents",
   "starknet_getNonce", "starknet_getStateUpdate", "starknet_getStorageAt",
   "starknet_getTransactionByBlockIdAndIndex", "starknet_getTransactionByHash",
   "starknet_getTransactionReceipt", "starknet_getTransactionStatus",
   "starknet_simulateTransactions", "starknet_specVersion", "starknet_syncing",
   "starknet_traceBlockTransactions", "starknet_traceTransaction"}

ASSUME BodiesAssumption ==
  \A b \in Bodies : Len(b.reqs) \in Nat /\ (b.kind = "single" => Len(b.reqs) = 1)

VARIABLES
  listener,    \* "accepting", "draining" or "ended"
  stop,        \* "no", "sent" (stop has sent its signal) or "returned"
  http         \* [Posts -> the state of a request]

vars == <<listener, stop, http>>

NoBody == [kind |-> "malformed", reqs |-> <<>>]

Init ==
  /\ listener = "accepting"
  /\ stop = "no"
  /\ http = [p \in Posts |-> [pc |-> "new", body |-> NoBody, at |-> 1, ret |-> <<>>]]

-----------------------------------------------------------------------------
(* One HTTP request: handle_request. *)

Current(p) == http[p].body.reqs[http[p].at]
Finished(p) == http[p].at > Len(http[p].body.reqs)

\* A connection is accepted and the body, all of which has come, is parsed; one that
\* is neither a request nor a list of requests is rejected by the Json extractor.
Post(p) ==
  /\ listener = "accepting"
  /\ http[p].pc = "new"
  /\ \E b \in Bodies :
       http' = [http EXCEPT ![p].body = b,
                            ![p].pc = IF b.kind = "malformed" THEN "rejected" ELSE "loop"]
  /\ UNCHANGED <<listener, stop>>

\* Variant: a notification is answered like any request.
Answer_Notifications(p, outcome) ==
  http' = [http EXCEPT ![p].pc = "loop", ![p].at = @ + 1,
                       ![p].ret = Append(@, [id |-> Current(p).id, outcome |-> outcome])]

\* Variant: the loop is left only by what has an id.
Answer_Again(p, outcome) ==
  http' = IF Current(p).id = None THEN [http EXCEPT ![p].pc = "loop"]
          ELSE [http EXCEPT ![p].pc = "loop", ![p].at = @ + 1,
                            ![p].ret = Append(@, [id |-> Current(p).id, outcome |-> outcome])]

\* The response of the current request, kept if it has an id.
Answer(p, outcome) ==
  http' = [http EXCEPT ![p].pc = "loop", ![p].at = @ + 1,
                       ![p].ret = IF Current(p).id = None THEN @
                                  ELSE Append(@, [id |-> Current(p).id, outcome |-> outcome])]

\* What handle answers by itself.
Refusal(r) ==
  IF r.method \notin Methods THEN {"method not found"}
  ELSE IF r.params = "bad" THEN {"invalid params"}
  ELSE {}

Refuse(p) ==
  /\ http[p].pc = "loop" /\ ~Finished(p)
  /\ \E o \in Refusal(Current(p)) : Answer(p, o)
  /\ UNCHANGED <<listener, stop>>

\* Variant: a method that is not known goes to a handler too.
Dispatch_Anything(p) ==
  /\ http[p].pc = "loop" /\ ~Finished(p)
  /\ http' = [http EXCEPT ![p].pc = "handler"]
  /\ UNCHANGED <<listener, stop>>

Dispatch(p) ==
  /\ http[p].pc = "loop" /\ ~Finished(p)
  /\ Refusal(Current(p)) = {}
  /\ http' = [http EXCEPT ![p].pc = "handler"]
  /\ UNCHANGED <<listener, stop>>

HandlerEnds(p) ==
  /\ http[p].pc = "handler"
  /\ \E o \in {"result", "error"} : Answer(p, o)
  /\ UNCHANGED <<listener, stop>>

\* The response goes out: null for a single notification.
Respond(p) ==
  /\ http[p].pc = "loop" /\ Finished(p)
  /\ http' = [http EXCEPT ![p].pc = "answered"]
  /\ UNCHANGED <<listener, stop>>

\* The client hangs up, and its handler is dropped where it is.
HangUp(p) ==
  /\ http[p].pc \in {"loop", "handler"}
  /\ http' = [http EXCEPT ![p].pc = "gone"]
  /\ UNCHANGED <<listener, stop>>

-----------------------------------------------------------------------------
(* Shutdown. *)

Open == {p \in Posts : http[p].pc \in {"loop", "handler"}}

\* Variant: stop waits without having sent anything, like done.
Signal_OnlyWaits == stop = "no" /\ stop' = "waiting" /\ UNCHANGED <<listener, http>>

\* stop sends its signal.
Signal == stop = "no" /\ stop' = "sent" /\ UNCHANGED <<listener, http>>

\* axum sees the signal and accepts no more connections.
Drain ==
  /\ stop = "sent" /\ listener = "accepting"
  /\ listener' = "draining"
  /\ UNCHANGED <<stop, http>>

\* Variant: serve ends with the signal.
ServeEnds_AtOnce ==
  /\ listener = "draining"
  /\ listener' = "ended"
  /\ UNCHANGED <<stop, http>>

\* It ends when the requests it has accepted are done.
ServeEnds ==
  /\ listener = "draining" /\ Open = {}
  /\ listener' = "ended"
  /\ UNCHANGED <<stop, http>>

\* The task is joined, and stop returns.
StopReturns ==
  /\ stop = "sent" /\ listener = "ended"
  /\ stop' = "returned"
  /\ UNCHANGED <<listener, http>>

PostNext(p) ==
  Post(p) \/ Refuse(p) \/ Dispatch(p) \/ HandlerEnds(p) \/ Respond(p) \/ HangUp(p)

Next ==
  \/ \E p \in Posts : PostNext(p)
  \/ Signal \/ Drain \/ ServeEnds \/ StopReturns

Spec == Init /\ [][Next]_vars

\* Is the request at work on a starknet_call? Its execution may never end.
InCall(p) == http[p].pc = "handler" /\ Current(p).method = "starknet_call"

\* Every task runs on, and every handler but a call ends (ReadsEnd of Beerus;
\* the requests that are passed on have the same timeout).
Fairness ==
  /\ WF_vars(Drain) /\ WF_vars(ServeEnds) /\ WF_vars(StopReturns)
  /\ \A p \in Posts : /\ WF_vars(Refuse(p)) /\ WF_vars(Dispatch(p)) /\ WF_vars(Respond(p))
                      /\ WF_vars(~InCall(p) /\ HandlerEnds(p))

FairSpec == Spec /\ Fairness

-----------------------------------------------------------------------------
(* Properties. *)

Outcomes == {"method not found", "invalid params", "result", "error"}

\* The responses to the requests that may come.
Response ==
  [id : UNION {{b.reqs[n].id : n \in 1..Len(b.reqs)} : b \in Bodies}, outcome : Outcomes]

TypeOK ==
  /\ listener \in {"accepting", "draining", "ended"}
  /\ stop \in {"no", "sent", "returned"}
  /\ http \in [Posts -> [pc : {"new", "rejected", "loop", "handler", "answered", "gone"},
                         body : Bodies \cup {NoBody}, at : Nat, ret : Seq(Response)]]
  /\ \A p \in Posts : http[p].at \in 1..(Len(http[p].body.reqs) + 1)

\* The requests of p so far that are to be answered.
Due(p) == {n \in 1..(http[p].at - 1) : http[p].body.reqs[n].id # None}

\* Whatever the handlers of a batch do and however batches interleave, the
\* responses are those of the requests that have an id, in their order, each
\* with its id, and refused exactly if the method or the parameters are
\* unknown (rpc.rs:219-244, gen.rs:3741-3824).
AnswersMatch ==
  \A p \in Posts :
    /\ Len(http[p].ret) = Cardinality(Due(p))
    /\ \A n \in Due(p) :
         LET a == http[p].ret[Cardinality({m \in Due(p) : m <= n})]
             r == http[p].body.reqs[n]
         IN  /\ a.id = r.id
             /\ a.outcome \in IF Refusal(r) = {} THEN {"result", "error"} ELSE Refusal(r)

\* When stop has returned no handler is at work, and none begins any more
\* (rpc.rs:24-27, 70-81).
QuietAfterStop == stop = "returned" => Open = {}

\* How far the shutdown has come, where a loop begins, what a handler is at
\* work on: what AnswersMatch and QuietAfterStop need to be inductive.
StopInv ==
  /\ listener = "ended" => Open = {}
  /\ stop = "returned" => listener = "ended"

WorkInv ==
  \A p \in Posts :
    /\ http[p].pc = "new" => http[p].at = 1
    /\ http[p].pc = "handler" => ~Finished(p) /\ Refusal(Current(p)) = {}

IInv == TypeOK /\ StopInv /\ WorkInv /\ AnswersMatch

\* If no call hangs, stop returns, however many requests were accepted before
\* the signal was seen.
StopEnds ==
  (\A p \in Posts : <>[]~InCall(p)) => (stop # "no" ~> stop = "returned")

\* A request or batch is answered or its client has gone, unless it hangs in a
\* call; what hangs in one request holds up no other.
EveryPostEnds ==
  \A p \in Posts :
    <>[]~InCall(p) => (http[p].pc = "loop" ~> http[p].pc \in {"answered", "gone"})
=============================================================================
