------------------------------ MODULE MPMCQueue ------------------------------
(***************************************************************************)
(* The lock-free queue of container/mpmc_queue.hh, one action per access to*)
(* its atomics and to the data of a cell.  Its clients use it as the       *)
(* scheduler uses mIdleFibers, mResumableFibers and mFreeCounters: start() *)
(* fills it with all the items there are, then every thread takes an item, *)
(* works with it and puts it back.                                         *)
(*                                                                         *)
(* Positions are natural numbers: a size_t does not come round in the life *)
(* of a scheduler.                                                         *)
(***************************************************************************)
EXTENDS Integers, Sequences, FiniteSets

CONSTANTS
  Threads,
  Items,         \* fiber or counter indices
  NoItem,        \* "this thread holds no item"
  Garbage,       \* contents of a cell never written
  Size,          \* buffer_size
  InitialItems,  \* what start() enqueues
  MaxPos         \* bound on the positions of a run

ASSUME QueueAssumption ==
  /\ Size \in Nat /\ Size >= 2
  /\ MaxPos \in Nat
  /\ NoItem \notin Items /\ Garbage \notin Items /\ Garbage # NoItem
  /\ InitialItems \in Seq(Items)
  /\ Len(InitialItems) <= Size

VARIABLES
  mEnqueuePos, mDequeuePos,
  sequence_,  \* sequence number of every cell
  data_,      \* item in every cell
  pc,         \* where every thread is
  pos,        \* its local pos
  hold        \* the item it holds: the argument of enqueue, the result of dequeue

shared == <<mEnqueuePos, mDequeuePos, sequence_, data_>>
vars == <<shared, pc, pos, hold>>

Cells == 0 .. Size - 1

mBufferMask == Size - 1

\* pos & mBufferMask, for a power of two
Cell(p) == p % Size

\* The constructor, and the enqueues of start() before any other thread runs.
Init ==
  /\ mEnqueuePos = Len(InitialItems)
  /\ mDequeuePos = 0
  /\ sequence_ = [i \in Cells |-> IF i < Len(InitialItems) THEN i + 1 ELSE i]
  /\ data_ = [i \in Cells |-> IF i < Len(InitialItems) THEN InitialItems[i + 1]
                                                       ELSE Garbage]
  /\ pc = [t \in Threads |-> "idle"]
  /\ pos = [t \in Threads |-> 0]
  /\ hold = [t \in Threads |-> NoItem]

Goto(t, l) == pc' = [pc EXCEPT ![t] = l]

SeqAt(t) == sequence_[Cell(pos[t])]
-----------------------------------------------------------------------------
(***************************************************************************)
(* enqueue                                                                 *)
(***************************************************************************)
\* The first load of mEnqueuePos, or the one after the position turned out to
\* be out of date.
enqLoad(t) ==
  /\ \/ pc[t] = "idle" /\ hold[t] # NoItem /\ mEnqueuePos < MaxPos
     \/ pc[t] = "enq_load"
  /\ pos' = [pos EXCEPT ![t] = mEnqueuePos]
  /\ Goto(t, "enq_seq")
  /\ UNCHANGED <<shared, hold>>

\* Read the sequence number of the cell: diff is zero, negative or positive.
enqSeq(t) ==
  LET diff == SeqAt(t) - pos[t] IN
  /\ pc[t] = "enq_seq"
  /\ Goto(t, IF diff = 0 THEN "enq_cas"
             ELSE IF diff < 0 THEN "enq_false" ELSE "enq_load")
  /\ UNCHANGED <<shared, pos, hold>>

enqCasBlind(t) ==
  /\ pc[t] = "enq_cas"
  /\ mEnqueuePos' = pos[t] + 1
  /\ Goto(t, "enq_write")
  /\ UNCHANGED <<mDequeuePos, sequence_, data_, pos, hold>>

\* compare_exchange_weak may fail for no reason; a failure loads the position.
enqCas(t) ==
  /\ pc[t] = "enq_cas"
  /\ \/ /\ mEnqueuePos = pos[t]
        /\ mEnqueuePos' = pos[t] + 1
        /\ Goto(t, "enq_write")
        /\ UNCHANGED pos
     \/ /\ pos' = [pos EXCEPT ![t] = mEnqueuePos]
        /\ Goto(t, "enq_seq")
        /\ UNCHANGED mEnqueuePos
  /\ UNCHANGED <<mDequeuePos, sequence_, data_, hold>>

enqWriteLate(t) ==
  /\ pc[t] = "enq_write"
  /\ sequence_' = [sequence_ EXCEPT ![Cell(pos[t])] = pos[t] + 1]
  /\ Goto(t, "enq_publish")
  /\ UNCHANGED <<mEnqueuePos, mDequeuePos, data_, pos, hold>>

enqWrite(t) ==
  /\ pc[t] = "enq_write"
  /\ data_' = [data_ EXCEPT ![Cell(pos[t])] = hold[t]]
  /\ Goto(t, "enq_publish")
  /\ UNCHANGED <<mEnqueuePos, mDequeuePos, sequence_, pos, hold>>

\* The cell is open to dequeue; true is returned.
enqPublish(t) ==
  /\ pc[t] = "enq_publish"
  /\ sequence_' = [sequence_ EXCEPT ![Cell(pos[t])] = pos[t] + 1]
  /\ hold' = [hold EXCEPT ![t] = NoItem]
  /\ Goto(t, "idle")
  /\ UNCHANGED <<mEnqueuePos, mDequeuePos, data_, pos>>

\* False is returned; the item is still the caller's.
enqFalse(t) ==
  /\ pc[t] = "enq_false"
  /\ Goto(t, "idle")
  /\ UNCHANGED <<shared, pos, hold>>
-----------------------------------------------------------------------------
(***************************************************************************)
(* dequeue                                                                 *)
(***************************************************************************)
deqLoad(t) ==
  /\ \/ pc[t] = "idle" /\ hold[t] = NoItem
     \/ pc[t] = "deq_load"
  /\ pos' = [pos EXCEPT ![t] = mDequeuePos]
  /\ Goto(t, "deq_seq")
  /\ UNCHANGED <<shared, hold>>

\* Zero if the cell is filled, negative if it is not yet.
DeqDiff(t) == SeqAt(t) - (pos[t] + 1)

\* An empty queue makes dequeue return false at once.
deqSeq(t) ==
  /\ pc[t] = "deq_seq"
  /\ Goto(t, IF DeqDiff(t) = 0 THEN "deq_cas"
             ELSE IF DeqDiff(t) < 0 THEN "idle" ELSE "deq_load")
  /\ UNCHANGED <<shared, pos, hold>>

deqCas(t) ==
  /\ pc[t] = "deq_cas"
  /\ \/ /\ mDequeuePos = pos[t]
        /\ mDequeuePos' = pos[t] + 1
        /\ Goto(t, "deq_read")
        /\ UNCHANGED pos
     \/ /\ pos' = [pos EXCEPT ![t] = mDequeuePos]
        /\ Goto(t, "deq_seq")
        /\ UNCHANGED mDequeuePos
  /\ UNCHANGED <<mEnqueuePos, sequence_, data_, hold>>

deqRead(t) ==
  /\ pc[t] = "deq_read"
  /\ hold' = [hold EXCEPT ![t] = data_[Cell(pos[t])]]
  /\ Goto(t, "deq_publish")
  /\ UNCHANGED <<shared, pos>>

\* The sequence number that opens the cell of position p to the next lap.
NextLap(p) == p + mBufferMask + 1

deqPublish(t) ==
  /\ pc[t] = "deq_publish"
  /\ sequence_' = [sequence_ EXCEPT ![Cell(pos[t])] = NextLap(pos[t])]
  /\ Goto(t, "idle")
  /\ UNCHANGED <<mEnqueuePos, mDequeuePos, data_, pos, hold>>

Step(t) == \/ enqLoad(t) \/ enqSeq(t) \/ enqCas(t) \/ enqWrite(t)
           \/ enqPublish(t) \/ enqFalse(t)
           \/ deqLoad(t) \/ deqSeq(t) \/ deqCas(t) \/ deqRead(t) \/ deqPublish(t)

Next == \E t \in Threads : Step(t)

Spec == Init /\ [][Next]_vars
-----------------------------------------------------------------------------
(***************************************************************************)
(* Properties.                                                             *)
(***************************************************************************)
Labels == {"idle", "enq_load", "enq_seq", "enq_cas", "enq_write", "enq_publish",
           "enq_false", "deq_load", "deq_seq", "deq_cas", "deq_read",
           "deq_publish"}

\* Every variable has its type; in particular no thread ever holds what was in
\* a cell before it was written.
TypeOK ==
  /\ mEnqueuePos \in Nat
  /\ mDequeuePos \in Nat
  /\ sequence_ \in [Cells -> Nat]
  /\ data_ \in [Cells -> Items \cup {Garbage}]
  /\ pc \in [Threads -> Labels]
  /\ pos \in [Threads -> Nat]
  /\ hold \in [Threads -> Items \cup {NoItem}]

\* Between its CAS and its publication a thread owns the cell.
Enqueuing(t) == pc[t] \in {"enq_write", "enq_publish"}
Dequeuing(t) == pc[t] \in {"deq_read", "deq_publish"}
Owns(t) == Enqueuing(t) \/ Dequeuing(t)

\* data_ is not atomic: a cell is written and read by one thread at a time.
CellExclusive ==
  \A t, u \in Threads :
    t # u /\ Owns(t) /\ Owns(u) => Cell(pos[t]) # Cell(pos[u])

\* The parts of the inductive invariant.  The queue holds the positions from
\* mDequeuePos up to mEnqueuePos, and never more than there are cells.
PositionsInv == /\ mDequeuePos <= mEnqueuePos
                /\ mEnqueuePos <= mDequeuePos + Size

\* A thread that owns a cell is in the current lap, and keeps the sequence
\* number that it found until it publishes the next one.
OwnersInv ==
  /\ \A t \in Threads : Enqueuing(t) =>
       /\ mDequeuePos <= pos[t] /\ pos[t] < mEnqueuePos
       /\ SeqAt(t) = pos[t]
  /\ \A t \in Threads : Dequeuing(t) =>
       /\ mEnqueuePos <= pos[t] + Size /\ pos[t] < mDequeuePos
       /\ SeqAt(t) = pos[t] + 1
  /\ \A t, u \in Threads :
       t # u /\ Owns(t) /\ Owns(u) => pos[t] # pos[u]

\* The sequence number of a cell that holds a position of the queue ...
FilledInv ==
  \A p \in mDequeuePos .. mEnqueuePos - 1 :
    \/ sequence_[Cell(p)] = p + 1
    \/ sequence_[Cell(p)] = p /\ \E t \in Threads : Enqueuing(t) /\ pos[t] = p

\* ... and of one that waits for a position of the lap to come.
FreeInv ==
  \A p \in mEnqueuePos .. mDequeuePos + Size - 1 :
    \/ sequence_[Cell(p)] = p
    \/ /\ sequence_[Cell(p)] = p - Size + 1
       /\ \E t \in Threads : Dequeuing(t) /\ pos[t] = p - Size

\* A CAS that will succeed finds the cell as it was when it was looked at.
CasInv ==
  \A t \in Threads :
    /\ pc[t] \in {"enq_seq", "enq_cas"} => pos[t] <= mEnqueuePos
    /\ pc[t] = "enq_cas" /\ pos[t] = mEnqueuePos => SeqAt(t) = pos[t]
    /\ pc[t] \in {"deq_seq", "deq_cas"} => pos[t] <= mDequeuePos
    /\ pc[t] = "deq_cas" /\ pos[t] = mDequeuePos => SeqAt(t) = pos[t] + 1

\* Where the items are.
ItemsInv ==
  /\ \A t \in Threads :
       /\ pc[t] \in {"enq_load", "enq_seq", "enq_cas", "enq_write",
                     "enq_publish", "enq_false", "deq_publish"} => hold[t] # NoItem
       /\ pc[t] \in {"deq_load", "deq_seq", "deq_cas", "deq_read"} => hold[t] = NoItem
       /\ pc[t] = "enq_publish" => data_[Cell(pos[t])] = hold[t]
       /\ pc[t] = "deq_read" => data_[Cell(pos[t])] # Garbage
  /\ \A p \in mDequeuePos .. mEnqueuePos - 1 :
       sequence_[Cell(p)] = p + 1 => data_[Cell(p)] # Garbage

\* The whole: every successful CAS of enqueue and dequeue finds its cell in the
\* state its thread has read, whatever happened in between.
Inv == /\ TypeOK /\ PositionsInv /\ OwnersInv
       /\ FilledInv /\ FreeInv /\ CasInv /\ ItemsInv

\* The item at position p of the queue: not yet written, or in its cell.
ItemAt(p) ==
  IF \E t \in Threads : pc[t] = "enq_write" /\ pos[t] = p
  THEN hold[CHOOSE t \in Threads : pc[t] = "enq_write" /\ pos[t] = p]
  ELSE data_[Cell(p)]

Contents == [i \in 1 .. mEnqueuePos - mDequeuePos |-> ItemAt(mDequeuePos + i - 1)]

\* What thread t holds as far as its client can tell: an enqueued item is gone
\* with the CAS, a dequeued one is here with the CAS.
Held(t) == CASE Enqueuing(t) -> NoItem
             [] pc[t] = "deq_read" -> data_[Cell(pos[t])]
             [] OTHER -> hold[t]

\* The queue implements the atomic one: its operations take effect with their
\* CAS, in first-in first-out order, whatever the other threads are doing.
Atomic == INSTANCE FIFO WITH items <- Contents, Capacity <- Size,
                             hold <- [t \in Threads |-> Held(t)],
                             InitialHold <- [t \in Threads |-> NoItem]
ImplementsFIFO == Atomic!Spec

\* enqueue returns true whenever the queue has room for every item there is
\* ("This should never fail, the container is large enough for all fibers in
\* the system").
EnqueueSucceeds == \A t \in Threads : pc[t] # "enq_false"
==============================================================================
