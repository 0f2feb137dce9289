----------------------------- MODULE PinnedQueue -----------------------------
(***************************************************************************)
(* A queue of pinned resumable fibers: the ring buffer of                  *)
(* container/mpsc_queue.hh, which "is not synchronized at all", guarded by *)
(* the test-and-test-and-set lock of common/spin_lock.hh.  The ring is     *)
(* changed in several steps, so that an access without the lock would show.*)
(*                                                                         *)
(* In the scheduler any thread enqueues and one dequeues; here any thread  *)
(* that holds an item (the index of a fiber) enqueues it, and any other    *)
(* dequeues.                                                               *)
(***************************************************************************)
EXTENDS Integers, Sequences

CONSTANTS
  Threads,
  Items,       \* fiber indices
  NoItem,      \* "this thread holds no item"
  N,           \* template argument of FIFOQueue
  InitialHold  \* the fibers that the threads are about to make resumable

ASSUME PinnedAssumption ==
  /\ N \in Nat \ {0}
  /\ NoItem \notin Items
  /\ InitialHold \in [Threads -> Items \cup {NoItem}]

VARIABLES
  mIsLocked,     \* the lock
  mHead, mTail,  \* newest and oldest place of the ring, -1 if it is empty
  mData,
  pc,            \* where every thread is
  hold           \* the argument of enqueue, the result of dequeue

ring == <<mHead, mTail, mData>>
vars == <<mIsLocked, ring, pc, hold>>

Places == 0 .. N - 1

Zero == 0   \* cc::array is value-initialised

Init ==
  /\ mIsLocked = FALSE
  /\ mHead = -1
  /\ mTail = -1
  /\ mData = [i \in Places |-> Zero]
  /\ pc = [t \in Threads |-> "lock"]
  /\ hold = InitialHold

Goto(t, l) == pc' = [pc EXCEPT ![t] = l]
-----------------------------------------------------------------------------
(***************************************************************************)
(* SpinLock                                                                *)
(***************************************************************************)
lockBlind(t) ==
  /\ pc[t] = "lock"
  /\ mIsLocked' = TRUE
  /\ Goto(t, IF hold[t] = NoItem THEN "deq_read" ELSE "enq_index")
  /\ UNCHANGED <<ring, hold>>

\* The exchange: whoever finds the lock free has it, the others spin.
lock(t) ==
  /\ pc[t] = "lock"
  /\ mIsLocked' = TRUE
  /\ Goto(t, IF mIsLocked THEN "spin"
             ELSE IF hold[t] = NoItem THEN "deq_read" ELSE "enq_index")
  /\ UNCHANGED <<ring, hold>>

\* The loop that waits for the lock to look free.
spin(t) ==
  /\ pc[t] = "spin"
  /\ ~mIsLocked
  /\ Goto(t, "lock")
  /\ UNCHANGED <<mIsLocked, ring, hold>>

\* The end of the LockGuard's scope; the thread goes on to its next call.
unlock(t) ==
  /\ pc[t] = "unlock"
  /\ mIsLocked' = FALSE
  /\ Goto(t, "lock")
  /\ UNCHANGED <<ring, hold>>
-----------------------------------------------------------------------------
(***************************************************************************)
(* FIFOQueue                                                               *)
(***************************************************************************)
empty == mTail = -1

\* An index that has run over the end of the array.
Wrap(i) == IF i >= N THEN i - N ELSE i

full == Wrap(mHead + 1) = mTail

\* enqueue, up to the store of the value; "FIFOQueue Full" is an assertion.
enqIndex(t) ==
  /\ pc[t] = "enq_index"
  /\ ~full
  /\ mTail' = IF empty THEN 0 ELSE mTail
  /\ mHead' = Wrap(mHead + 1)
  /\ Goto(t, "enq_store")
  /\ UNCHANGED <<mIsLocked, mData, hold>>

enqStore(t) ==
  /\ pc[t] = "enq_store"
  /\ mData' = [mData EXCEPT ![mHead] = hold[t]]
  /\ hold' = [hold EXCEPT ![t] = NoItem]
  /\ Goto(t, "unlock")
  /\ UNCHANGED <<mIsLocked, mHead, mTail>>

\* dequeue: false if there is nothing, else the oldest value is read ...
deqRead(t) ==
  /\ pc[t] = "deq_read"
  /\ IF empty
     THEN Goto(t, "unlock") /\ UNCHANGED hold
     ELSE Goto(t, "deq_index") /\ hold' = [hold EXCEPT ![t] = mData[mTail]]
  /\ UNCHANGED <<mIsLocked, ring>>

TailKept == [head |-> mHead, tail |-> Wrap(mTail + 1)]

\* The indices without the oldest value; a queue that is empty starts afresh.
Advanced == IF mTail = mHead THEN [head |-> -1, tail |-> -1]
            ELSE [head |-> mHead, tail |-> Wrap(mTail + 1)]

\* ... and then given up.
deqIndex(t) ==
  /\ pc[t] = "deq_index"
  /\ mHead' = Advanced.head
  /\ mTail' = Advanced.tail
  /\ Goto(t, "unlock")
  /\ UNCHANGED <<mIsLocked, mData, hold>>

Step(t) == \/ lock(t) \/ spin(t) \/ unlock(t)
           \/ enqIndex(t) \/ enqStore(t) \/ deqRead(t) \/ deqIndex(t)

Next == \E t \in Threads : Step(t)

Spec == Init /\ [][Next]_vars
-----------------------------------------------------------------------------
(***************************************************************************)
(* Properties.                                                             *)
(***************************************************************************)
Labels == {"lock", "spin", "enq_index", "enq_store", "deq_read", "deq_index",
           "unlock"}

\* Every variable has its type: the indices of FIFOQueue stay inside its array
\* or are -1, and what dequeue returns is the index of a fiber.
TypeOK ==
  /\ mIsLocked \in BOOLEAN
  /\ mHead \in Places \cup {-1}
  /\ mTail \in Places \cup {-1}
  /\ mData \in [Places -> Items \cup {Zero}]
  /\ pc \in [Threads -> Labels]
  /\ hold \in [Threads -> Items \cup {NoItem}]

Inside(t) == pc[t] \notin {"lock", "spin"}

\* The lock is exclusive: one thread at a time is inside enqueue or dequeue,
\* and none while mIsLocked is false.
MutualExclusion ==
  /\ \A t, u \in Threads : Inside(t) /\ Inside(u) => t = u
  /\ \A t \in Threads : Inside(t) => mIsLocked

\* The places between the oldest and the newest value.
Occupied(i) == /\ ~empty
               /\ IF mTail <= mHead THEN mTail <= i /\ i <= mHead
                  ELSE mTail <= i \/ i <= mHead

Storing == \E t \in Threads : pc[t] = "enq_store"

\* The parts of the inductive invariant.  Both indices are -1 together; every
\* occupied place holds a fiber, except the one that enqueue is about to fill.
RingInv ==
  /\ mHead = -1 <=> mTail = -1
  /\ \A i \in Places : Occupied(i) /\ ~(i = mHead /\ Storing) => mData[i] \in Items

\* What a thread that has the lock knows.
HolderInv ==
  \A t \in Threads :
    /\ pc[t] \in {"enq_index", "enq_store"} => hold[t] # NoItem
    /\ pc[t] = "deq_read" => hold[t] = NoItem
    /\ pc[t] = "enq_store" => ~empty
    /\ pc[t] = "deq_index" => ~empty /\ hold[t] = mData[mTail]

\* The whole.  What dequeue returns was enqueued, although the ring is changed
\* index first by enqueue, and index last by dequeue.
Inv == TypeOK /\ MutualExclusion /\ RingInv /\ HolderInv

\* The number of values in the ring, by its indices.
Count == IF empty THEN 0
         ELSE IF mTail <= mHead THEN mHead - mTail + 1 ELSE mHead - mTail + N + 1

\* The value at place i, the one just being enqueued included.
ValueAt(i) ==
  IF i = mHead /\ Storing
  THEN hold[CHOOSE t \in Threads : pc[t] = "enq_store"]
  ELSE mData[i]

\* A value read by dequeue is gone although the index has not moved yet.
Gone == IF \E t \in Threads : pc[t] = "deq_index" THEN 1 ELSE 0

Contents == [i \in 1 .. Count - Gone |-> ValueAt(Wrap(mTail + Gone + i - 1))]

Held(t) == IF pc[t] = "enq_store" THEN NoItem ELSE hold[t]

\* Behind the lock the ring is an atomic bounded first-in first-out queue:
\* enqueue takes effect with its index, dequeue with its read.
Atomic == INSTANCE FIFO WITH items <- Contents, Capacity <- N,
                             hold <- [t \in Threads |-> Held(t)],
                             InitialItems <- <<>>
ImplementsFIFO == Atomic!Spec
==============================================================================
