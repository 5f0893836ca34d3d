------------------------------- MODULE RwLock -------------------------------
(***************************************************************************)
(* The tokio::sync::RwLock that guards the shared head (bin/beerus.rs:22), *)
(* an external library, modelled by what its users in src/ rely on: any    *)
(* number of read guards or one write guard, and a FIFO queue, so that a   *)
(* waiting writer also holds back every reader that asked after it.        *)
(*                                                                         *)
(* The queue is kept as the set of waiting tasks and, for each of them,    *)
(* the tasks queued before it: a task that gives up (its future is         *)
(* dropped) leaves the middle of the queue, and the order of the others    *)
(* stays.                                                                  *)
(***************************************************************************)
CONSTANT Tasks

VARIABLES
  readers,    \* the tasks that hold a read guard
  writers,    \* the tasks that hold the write guard (at most one)
  waiting,    \* the tasks that have polled read() or write() and wait
  ahead       \* ahead[t]: the waiting tasks queued before t

lockVars == <<readers, writers, waiting, ahead>>

LockTypeOK ==
  /\ readers \subseteq Tasks
  /\ writers \subseteq Tasks
  /\ waiting \subseteq Tasks
  /\ ahead \in [Tasks -> SUBSET Tasks]

LockInit ==
  /\ readers = {}
  /\ writers = {}
  /\ waiting = {}
  /\ ahead = [t \in Tasks |-> {}]

\* read() or write() is called: the task joins the end of the queue.
Enqueue(t) ==
  /\ waiting' = waiting \cup {t}
  /\ ahead' = [ahead EXCEPT ![t] = waiting]
  /\ UNCHANGED <<readers, writers>>

\* Variant: the others keep waiting for a task that has left the queue.
Leave_StaysInTheWay(t) ==
  /\ waiting' = waiting \ {t}
  /\ ahead' = [ahead EXCEPT ![t] = {}]

Leave(t) ==
  /\ waiting' = waiting \ {t}
  /\ ahead' = [u \in Tasks |-> IF u = t THEN {} ELSE ahead[u] \ {t}]

CanRead(t) == t \in waiting /\ ahead[t] = {} /\ writers = {}
\* Variant: a writer does not wait for the readers.
CanWrite_IgnoresReaders(t) == t \in waiting /\ ahead[t] = {} /\ writers = {}

CanWrite(t) == t \in waiting /\ ahead[t] = {} /\ writers = {} /\ readers = {}

AcquireRead(t) ==
  /\ CanRead(t)
  /\ readers' = readers \cup {t}
  /\ Leave(t)
  /\ UNCHANGED writers

AcquireWrite(t) ==
  /\ CanWrite(t)
  /\ writers' = writers \cup {t}
  /\ Leave(t)
  /\ UNCHANGED readers

\* A guard goes out of scope.
ReleaseRead(t) == readers' = readers \ {t} /\ UNCHANGED <<writers, waiting, ahead>>
ReleaseWrite(t) == writers' = writers \ {t} /\ UNCHANGED <<readers, waiting, ahead>>

\* The task's future is dropped: its guard and its place in the queue go.
Abandon(t) == readers' = readers \ {t} /\ Leave(t) /\ UNCHANGED writers
=============================================================================
