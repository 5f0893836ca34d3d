--------------------------- MODULE SnapshotReads ----------------------------
(***************************************************************************)
(* What an execution promises: a call has the state of one block in front  *)
(* of it from its beginning to its end, and each read is one look at that  *)
(* state. There is no cache, no proof and no other call here: calls do not *)
(* see each other, nor what they write. A provider that is not honest can  *)
(* show for a storage value what verify accepts under the block's root     *)
(* (Provable) or a zero, choose what comes without a proof, nothing else.  *)
(***************************************************************************)
EXTENDS Integers

CONSTANTS Calls, Blocks, Items, Values, Zero, Truth, Provable, MaxAccesses

VARIABLES
  honest,   \* does the provider answer from the state of the block?
  task      \* [Calls -> [pc, block, left, reads]]

specVars == <<honest, task>>

\* What a read of item i can give in the state of block b.
Views(b, i) ==
  IF honest THEN {Truth[b][i]}
  ELSE IF i[1] = "storage" THEN Provable[b][i] \cup {Zero}
  ELSE Values

SpecInit ==
  /\ honest \in BOOLEAN
  /\ task \in [Calls -> [pc : {"idle"}, block : Blocks, left : {0}, reads : {{}}]]

Begin(c) ==
  /\ task[c].pc = "idle"
  /\ \E b \in Blocks :
       task' = [task EXCEPT ![c] = [pc |-> "run", block |-> b, left |-> MaxAccesses, reads |-> {}]]

Accesses(c) == task[c].pc = "run" /\ task[c].left > 0

Read(c) ==
  /\ Accesses(c)
  /\ \E i \in Items : \E v \in Views(task[c].block, i) :
       task' = [task EXCEPT ![c] =
                  [pc |-> "run", block |-> task[c].block, left |-> task[c].left - 1,
                   reads |-> task[c].reads \cup {[item |-> i, value |-> v]}]]

Write(c) == Accesses(c) /\ task' = [task EXCEPT ![c].left = @ - 1]

\* Whatever its result.
End(c) ==
  /\ task[c].pc = "run"
  /\ \E b \in Blocks :
       task' = [task EXCEPT ![c] = [pc |-> "idle", block |-> b, left |-> 0, reads |-> {}]]

SpecNext ==
  /\ \E c \in Calls : Begin(c) \/ Read(c) \/ Write(c) \/ End(c)
  /\ UNCHANGED honest

SnapshotSpec == SpecInit /\ [][SpecNext]_specVars
=============================================================================
