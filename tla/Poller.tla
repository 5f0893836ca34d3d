------------------------------- MODULE Poller -------------------------------
(***************************************************************************)
(* The task that main spawns to follow the chain (bin/beerus.rs:24-45):    *)
(* every poll_secs it asks the feeder gateway for the latest block and,    *)
(* when the answer differs from its own copy of the head, publishes it     *)
(* under the write guard and then remembers it.                            *)
(*                                                                         *)
(* The gateway is external: it has a latest block, which may move to any   *)
(* block (it may also step back: a reorg, or a replica that lags), and it  *)
(* answers a query or fails.                                               *)
(***************************************************************************)
EXTENDS SharedHead

CONSTANT Poll        \* the poller's task

VARIABLES
  latest,     \* the gateway's latest block
  pollPc,     \* where the poller is
  current,    \* the poller's own copy of the head
  update      \* the gateway's answer being handled

pollVars == <<pollPc, current, update>>

PollPcs == {"start", "read", "tick", "ask", "compare", "write", "store",
            "storing", "remember"}

PollTypeOK ==
  /\ latest \in Blocks
  /\ pollPc \in PollPcs
  /\ current \in Blocks
  /\ update \in Blocks

\* main has awaited a first get_state and put it in the lock; the task has
\* not run yet, so its variables are not set: they stand at the same block.
PollInit ==
  /\ latest \in Blocks
  /\ head \in Blocks
  /\ current = head
  /\ update = head
  /\ pollPc = "start"

\* The chain moves on at the gateway.
GatewayMoves ==
  /\ latest' \in Blocks \ {latest}
  /\ UNCHANGED <<head, pollVars, lockVars>>

\* let mut current = state.read().await.clone()
PollRead ==
  /\ pollPc = "start"
  /\ pollPc' = "read"
  /\ Enqueue(Poll)
  /\ UNCHANGED <<latest, head, current, update>>

PollReadGuard ==
  /\ pollPc = "read"
  /\ Poll \notin readers
  /\ AcquireRead(Poll)
  /\ UNCHANGED <<latest, head, pollVars>>

PollClone ==
  /\ pollPc = "read"
  /\ Poll \in readers
  /\ current' = head
  /\ pollPc' = "tick"
  /\ ReleaseRead(Poll)
  /\ UNCHANGED <<latest, head, update>>

\* tick.tick().await, then get_state() sends its query.
Tick ==
  /\ pollPc = "tick"
  /\ pollPc' = "ask"
  /\ UNCHANGED <<latest, head, current, update, lockVars>>

\* Variant: the status of the block is not checked, and a pending block, which
\* has a number but the hash and root of its parent, is taken for the latest.
GatewayAnswers_AnyStatus ==
  /\ pollPc = "ask"
  /\ update' \in {latest, [latest EXCEPT !.block_number = latest.block_number + 1]}
  /\ pollPc' = "compare"
  /\ UNCHANGED <<latest, head, current, lockVars>>

\* The gateway takes its latest block; the answer travels back to the poller,
\* which handles it in a later step, when the gateway may have moved again.
GatewayAnswers ==
  /\ pollPc = "ask"
  /\ update' = latest
  /\ pollPc' = "compare"
  /\ UNCHANGED <<latest, head, current, lockVars>>

\* Err(e): a failed request, a block that is not ACCEPTED_ON_L2, a missing
\* field or a malformed felt. It is logged and the next tick tries again.
GatewayFails ==
  /\ pollPc = "ask"
  /\ pollPc' = "tick"
  /\ UNCHANGED <<latest, head, current, update, lockVars>>

\* Ok(_) => (), and Ok(update) if update != current => state.write()
NoChange ==
  /\ pollPc = "compare"
  /\ SameState(update, current)
  /\ pollPc' = "tick"
  /\ UNCHANGED <<latest, head, current, update, lockVars>>

\* Variant: current = update comes before the write.
AskWrite_RememberFirst ==
  /\ pollPc = "compare"
  /\ ~SameState(update, current)
  /\ current' = update
  /\ pollPc' = "write"
  /\ Enqueue(Poll)
  /\ UNCHANGED <<latest, head, update>>

AskWrite ==
  /\ pollPc = "compare"
  /\ ~SameState(update, current)
  /\ pollPc' = "write"
  /\ Enqueue(Poll)
  /\ UNCHANGED <<latest, head, current, update>>

PollWriteGuard ==
  /\ pollPc = "write"
  /\ AcquireWrite(Poll)
  /\ pollPc' = "store"
  /\ UNCHANGED <<latest, head, current, update>>

\* Variant: each field is written under a guard of its own.
StoreNumber_OwnGuard ==
  /\ pollPc = "store"
  /\ head' = [head EXCEPT !.block_number = update.block_number]
  /\ pollPc' = "storing"
  /\ ReleaseWrite(Poll)
  /\ UNCHANGED <<latest, current, update>>

\* *guard = update.clone() is no single write: the number is copied in one
\* step here and the hash and the root in the next, which drops the guard.
StoreNumber ==
  /\ pollPc = "store"
  /\ head' = [head EXCEPT !.block_number = update.block_number]
  /\ pollPc' = "storing"
  /\ UNCHANGED <<latest, current, update, lockVars>>

StoreRest ==
  /\ pollPc = "storing"
  /\ head' = [head EXCEPT !.block_hash = update.block_hash, !.root = update.root]
  /\ pollPc' = "remember"
  /\ ReleaseWrite(Poll)
  /\ UNCHANGED <<latest, current, update>>

\* current = update
Remember ==
  /\ pollPc = "remember"
  /\ current' = update
  /\ pollPc' = "tick"
  /\ UNCHANGED <<latest, head, update, lockVars>>

\* The steps the tokio runtime takes for the task, whatever the network does.
PollStep ==
  \/ PollRead \/ PollReadGuard \/ PollClone \/ Tick \/ NoChange
  \/ AskWrite \/ PollWriteGuard \/ StoreNumber \/ StoreRest \/ Remember
=============================================================================
