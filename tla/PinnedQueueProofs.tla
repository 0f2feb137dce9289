-------------------------- MODULE PinnedQueueProofs --------------------------
(***************************************************************************)
(* The lock of a pinned queue excludes, the ring behind it stays in order, *)
(* and together they are an atomic first-in first-out queue: for any number*)
(* of threads and fibers, and any size of the ring.                        *)
(***************************************************************************)
EXTENDS PinnedQueue, SequenceTheorems, TLAPS

LEMMA InitInv == Init => Inv
<1> SUFFICES ASSUME Init PROVE Inv
  OBVIOUS
<1>1. TypeOK
  BY PinnedAssumption DEF Init, TypeOK, Labels, Places, Zero
<1>2. MutualExclusion /\ HolderInv
  BY DEF Init, MutualExclusion, HolderInv, Inside
<1>3. RingInv
  BY DEF Init, RingInv, Occupied, empty
<1> QED
  BY <1>1, <1>2, <1>3 DEF Inv

\* Inside the critical section the lock is taken and nobody else is there.
LEMMA Alone ==
  ASSUME Inv, NEW t \in Threads, Inside(t)
  PROVE  mIsLocked /\ \A u \in Threads \ {t} : pc[u] \in {"lock", "spin"}
  BY DEF Inv, MutualExclusion, Inside

LEMMA LockStep ==
  ASSUME Inv, NEW t \in Threads, lock(t) \/ spin(t) \/ unlock(t)
  PROVE  Inv'
<1> USE DEF Inv
<1>1. TypeOK'
  BY DEF TypeOK, lock, spin, unlock, ring, Goto, Labels
<1>2. MutualExclusion'
  BY DEF TypeOK, MutualExclusion, Inside, lock, spin, unlock, ring, Goto
<1>3. pc'[t] # "enq_store" /\ pc[t] # "enq_store" /\ \A u \in Threads \ {t} : pc'[u] = pc[u]
  BY DEF TypeOK, lock, spin, unlock, Goto
<1>4. UNCHANGED <<ring, hold>>
  BY DEF lock, spin, unlock
<1>5. Storing' <=> Storing
  BY <1>3 DEF Storing
<1>6. RingInv'
  BY <1>4, <1>5 DEF RingInv, Occupied, empty, ring
<1>7. HolderInv'
  BY <1>3, <1>4 DEF HolderInv, TypeOK, empty, ring, lock, spin, unlock, Goto
<1> QED
  BY <1>1, <1>2, <1>6, <1>7

LEMMA EnqIndexStep ==
  ASSUME Inv, NEW t \in Threads, enqIndex(t)
  PROVE  Inv'
<1>1. Inside(t) /\ Inside(t)'
  BY DEF Inv, TypeOK, enqIndex, Inside, Goto
<1>2. mIsLocked /\ \A u \in Threads \ {t} : pc[u] \in {"lock", "spin"} /\ pc'[u] = pc[u]
  BY <1>1, Alone DEF enqIndex, Goto, Inv, TypeOK
<1>3. TypeOK'
  BY PinnedAssumption DEF Inv, TypeOK, enqIndex, Goto, Labels, Places, Wrap, empty
<1>4. MutualExclusion'
  BY <1>1, <1>2 DEF MutualExclusion, Inside, enqIndex
<1>5. mHead' # -1 /\ mTail' # -1
  BY PinnedAssumption DEF Inv, TypeOK, enqIndex, Places, Wrap, empty
<1>6. pc'[t] = "enq_store"
  BY DEF Inv, TypeOK, enqIndex, Goto
<1>7. Storing' /\ ~Storing
  BY <1>2, <1>6 DEF Storing, enqIndex
<1>8. ASSUME NEW i \in Places, Occupied(i)', i # mHead'
      PROVE  mData'[i] \in Items
  <2>1. Occupied(i)
    BY <1>8, PinnedAssumption DEF Occupied, enqIndex, empty, full, Wrap, Inv, TypeOK, RingInv, Places
  <2> QED
    BY <2>1, <1>7 DEF Inv, RingInv, enqIndex
<1>9. RingInv'
  BY <1>5, <1>7, <1>8 DEF RingInv
<1>10. HolderInv'
  BY <1>2, <1>5, <1>6 DEF HolderInv, Inv, enqIndex, empty
<1> QED
  BY <1>3, <1>4, <1>9, <1>10 DEF Inv

LEMMA EnqStoreStep ==
  ASSUME Inv, NEW t \in Threads, enqStore(t)
  PROVE  Inv'
<1>1. Inside(t) /\ Inside(t)'
  BY DEF Inv, TypeOK, enqStore, Inside, Goto
<1>2. mIsLocked /\ \A u \in Threads \ {t} : pc[u] \in {"lock", "spin"} /\ pc'[u] = pc[u]
  BY <1>1, Alone DEF enqStore, Goto, Inv, TypeOK
<1>3. hold[t] \in Items /\ mTail # -1 /\ mHead \in Places
  BY DEF Inv, HolderInv, TypeOK, enqStore, RingInv, empty
<1>4. TypeOK'
  BY <1>3 DEF Inv, TypeOK, enqStore, Goto, Labels
<1>5. MutualExclusion'
  BY <1>1, <1>2 DEF MutualExclusion, Inside, enqStore
<1>6. Storing /\ ~Storing'
  BY <1>2 DEF Storing, enqStore, Goto, Inv, TypeOK
<1>7. mData'[mHead] \in Items /\ \A i \in Places : i # mHead => mData'[i] = mData[i]
  BY <1>3 DEF enqStore, Inv, TypeOK
<1>8. RingInv'
  BY <1>6, <1>7 DEF RingInv, Occupied, empty, Inv, enqStore
<1>9. HolderInv'
  BY <1>2 DEF HolderInv, Inv, TypeOK, enqStore, Goto, empty
<1> QED
  BY <1>4, <1>5, <1>8, <1>9 DEF Inv

LEMMA DeqReadStep ==
  ASSUME Inv, NEW t \in Threads, deqRead(t)
  PROVE  Inv'
<1>1. Inside(t) /\ Inside(t)'
  BY DEF Inv, TypeOK, deqRead, Inside, Goto
<1>2. mIsLocked /\ \A u \in Threads \ {t} : pc[u] \in {"lock", "spin"} /\ pc'[u] = pc[u]
  BY <1>1, Alone DEF deqRead, Goto, Inv, TypeOK
<1>3. ~Storing /\ ~Storing'
  BY <1>2 DEF Storing, deqRead, Goto, Inv, TypeOK
<1>4. ~empty => mData[mTail] \in Items
  BY <1>3 DEF empty, Inv, RingInv, Occupied, TypeOK, Places
<1>5. TypeOK'
  BY <1>4 DEF Inv, TypeOK, deqRead, Goto, Labels, ring
<1>6. MutualExclusion'
  BY <1>1, <1>2 DEF MutualExclusion, Inside, deqRead
<1>7. RingInv'
  BY <1>3 DEF RingInv, Occupied, empty, Inv, deqRead, ring
<1>8. HolderInv'
  BY <1>2 DEF HolderInv, Inv, TypeOK, deqRead, Goto, empty, ring
<1> QED
  BY <1>5, <1>6, <1>7, <1>8 DEF Inv

LEMMA DeqIndexStep ==
  ASSUME Inv, NEW t \in Threads, deqIndex(t)
  PROVE  Inv'
<1>1. Inside(t) /\ Inside(t)'
  BY DEF Inv, TypeOK, deqIndex, Inside, Goto
<1>2. mIsLocked /\ \A u \in Threads \ {t} : pc[u] \in {"lock", "spin"} /\ pc'[u] = pc[u]
  BY <1>1, Alone DEF deqIndex, Goto, Inv, TypeOK
<1>3. ~Storing /\ ~Storing'
  BY <1>2 DEF Storing, deqIndex, Goto, Inv, TypeOK
<1>4. mHead \in Places /\ mTail \in Places
  BY DEF Inv, TypeOK, RingInv, HolderInv, empty, deqIndex
<1>5. /\ mTail = mHead => mHead' = -1 /\ mTail' = -1
      /\ mTail # mHead => mHead' = mHead /\ mTail' = Wrap(mTail + 1)
  BY DEF deqIndex, Advanced
<1>6. mHead' \in Places \cup {-1} /\ mTail' \in Places \cup {-1} /\ (mHead' = -1 <=> mTail' = -1)
  BY <1>4, <1>5, PinnedAssumption DEF Places, Wrap
<1>7. TypeOK'
  BY <1>6 DEF Inv, TypeOK, deqIndex, Goto, Labels
<1>8. MutualExclusion'
  BY <1>1, <1>2 DEF MutualExclusion, Inside, deqIndex
<1>9. ASSUME NEW i \in Places, Occupied(i)'
      PROVE  Occupied(i)
  BY <1>4, <1>5, <1>9, PinnedAssumption DEF Occupied, empty, Places, Wrap
<1>10. RingInv'
  BY <1>3, <1>6, <1>9 DEF RingInv, Inv, deqIndex
<1>11. HolderInv'
  BY <1>2 DEF HolderInv, Inv, TypeOK, deqIndex, Goto, empty
<1> QED
  BY <1>7, <1>8, <1>10, <1>11 DEF Inv

LEMMA NextInv == Inv /\ [Next]_vars => Inv'
<1> SUFFICES ASSUME Inv, [Next]_vars PROVE Inv'
  OBVIOUS
<1>1. CASE UNCHANGED vars
  BY <1>1 DEF vars, ring, Inv, TypeOK, MutualExclusion, Inside, RingInv, Occupied,
              Storing, HolderInv, empty
<1>2. ASSUME NEW t \in Threads, Step(t) PROVE Inv'
  BY <1>2, LockStep, EnqIndexStep, EnqStoreStep, DeqReadStep, DeqIndexStep DEF Step
<1> QED
  BY <1>1, <1>2 DEF Next

\* The lock and the ring: one thread at a time is inside enqueue or dequeue, the
\* places between mTail and mHead hold fibers, and only fibers are returned.
THEOREM PinnedInvariant == Spec => []Inv
  BY InitInv, NextInv, PTL DEF Spec

\* Two threads are never inside the queue's enqueue and dequeue at a time.
THEOREM PinnedExclusion == Spec => []MutualExclusion
<1>1. Inv => MutualExclusion
  BY DEF Inv
<1> QED
  BY <1>1, PinnedInvariant, PTL
-----------------------------------------------------------------------------
(***************************************************************************)
(* The refinement.                                                         *)
(***************************************************************************)
\* The places of the ring, counted from the oldest.
LEMMA CountFacts ==
  ASSUME Inv
  PROVE  /\ Count \in 0 .. N
         /\ Count = 0 <=> empty
         /\ Gone \in {0, 1} /\ (Gone = 1 => ~empty)
         /\ \A j \in 0 .. Count - 1 : Wrap(mTail + j) \in Places /\ Occupied(Wrap(mTail + j))
<1>1. empty => Count = 0
  BY DEF Count
<1>2. ~empty => mHead \in Places /\ mTail \in Places
  BY DEF Inv, TypeOK, RingInv, empty
<1>3. ~empty => Count \in 1 .. N
  BY <1>2, PinnedAssumption DEF Count, Places
<1>4. ASSUME ~empty, NEW j \in 0 .. Count - 1
      PROVE  Wrap(mTail + j) \in Places /\ Occupied(Wrap(mTail + j))
  BY <1>2, <1>4, PinnedAssumption DEF Count, Places, Wrap, Occupied
<1>5. Gone \in {0, 1} /\ (Gone = 1 => ~empty)
  BY DEF Gone, Inv, HolderInv
<1> QED
  BY <1>1, <1>3, <1>4, <1>5, PinnedAssumption

\* The value that enqueue is about to store is the one its thread holds.
StoringOK == \A t \in Threads : pc[t] = "enq_store" => Storing /\ ValueAt(mHead) = hold[t]

LEMMA StoringValue == Inv => StoringOK
<1> SUFFICES ASSUME Inv, NEW t \in Threads, pc[t] = "enq_store"
             PROVE  Storing /\ ValueAt(mHead) = hold[t]
  BY DEF StoringOK
<1>1. \A u \in Threads : pc[u] = "enq_store" => u = t
  BY DEF Inv, MutualExclusion, Inside
<1>2. (CHOOSE u \in Threads : pc[u] = "enq_store") = t
  BY <1>1
<1> QED
  BY <1>2 DEF ValueAt, Storing

LEMMA ValueFacts ==
  ASSUME Inv, NEW i \in Places, Occupied(i)
  PROVE  ValueAt(i) \in Items
<1>1. CASE i = mHead /\ Storing
  <2>1. PICK t \in Threads : pc[t] = "enq_store"
    BY <1>1 DEF Storing
  <2>2. hold[t] \in Items
    BY <2>1 DEF Inv, HolderInv, TypeOK
  <2> QED
    BY <1>1, <2>1, <2>2, StoringValue DEF StoringOK
<1>2. CASE ~(i = mHead /\ Storing)
  <2>1. mData[i] \in Items
    BY <1>2 DEF Inv, RingInv
  <2> QED
    BY <1>2, <2>1 DEF ValueAt
<1> QED
  BY <1>1, <1>2

ContentsOK ==
  /\ Contents \in Seq(Items)
  /\ Len(Contents) = Count - Gone
  /\ Count - Gone \in Nat
  /\ \A i \in 1 .. Count - Gone : Contents[i] = ValueAt(Wrap(mTail + Gone + i - 1))

LEMMA ContentsFacts == Inv => ContentsOK
<1> SUFFICES ASSUME Inv PROVE ContentsOK
  OBVIOUS
<1>1. Count - Gone \in Nat /\ Count \in Nat /\ Gone \in {0, 1}
  BY CountFacts, PinnedAssumption
<1>2. ASSUME NEW i \in 1 .. Count - Gone
      PROVE  ValueAt(Wrap(mTail + Gone + i - 1)) \in Items
  <2>1. Gone + i - 1 \in 0 .. Count - 1
    BY <1>1, <1>2
  <2>2. mTail + (Gone + i - 1) = mTail + Gone + i - 1
    BY <1>1, <1>2 DEF Inv, TypeOK, Places
  <2>3. Wrap(mTail + Gone + i - 1) \in Places /\ Occupied(Wrap(mTail + Gone + i - 1))
    BY <2>1, <2>2, CountFacts
  <2> QED
    BY <2>3, ValueFacts
<1>3. Contents \in [1 .. Count - Gone -> Items]
  BY <1>2 DEF Contents
<1>4. Contents \in Seq(Items)
  BY <1>1, <1>3, SeqDef
<1>5. Len(Contents) = Count - Gone
  BY <1>1, <1>3, <1>4, LenProperties
<1> QED
  BY <1>1, <1>4, <1>5 DEF ContentsOK, Contents

\* Two states with the same values in the same order.
LEMMA SameContents ==
  ASSUME Inv, Inv', Count - Gone = (Count - Gone)',
         \A i \in 1 .. Count - Gone :
           ValueAt(Wrap(mTail + Gone + i - 1)) = ValueAt(Wrap(mTail + Gone + i - 1))'
  PROVE  Contents' = Contents
<1>1. ContentsOK /\ ContentsOK'
  BY ContentsFacts, PTL
<1>2. Contents \in Seq(Items) /\ Contents' \in Seq(Items)
  BY <1>1 DEF ContentsOK
<1>3. Len(Contents') = Len(Contents)
  BY <1>1 DEF ContentsOK
<1>4. \A i \in 1 .. Len(Contents) : Contents'[i] = Contents[i]
  BY <1>1 DEF ContentsOK
<1> QED
  BY <1>2, <1>3, <1>4, SeqEqual

\* The item a thread holds, as its client sees it.
LEMMA SameHeld ==
  ASSUME NEW t \in Threads, Held(t)' = Held(t),
         \A u \in Threads \ {t} : pc'[u] = pc[u] /\ hold'[u] = hold[u]
  PROVE  [u \in Threads |-> Held(u)]' = [u \in Threads |-> Held(u)]
<1>1. \A u \in Threads : Held(u)' = Held(u)
  BY DEF Held
<1> QED
  BY <1>1

Stutter == /\ Contents' = Contents
           /\ [u \in Threads |-> Held(u)]' = [u \in Threads |-> Held(u)]

LEMMA LockStutters ==
  ASSUME Inv, Inv', NEW t \in Threads, lock(t) \/ spin(t) \/ unlock(t)
  PROVE  Stutter
<1>1. /\ UNCHANGED <<ring, hold>>
      /\ pc[t] \notin {"enq_store", "deq_index"} /\ pc'[t] \notin {"enq_store", "deq_index"}
      /\ \A u \in Threads \ {t} : pc'[u] = pc[u]
  BY DEF Inv, TypeOK, lock, spin, unlock, Goto
<1>2. Count' = Count /\ Gone' = Gone /\ mTail' = mTail
  BY <1>1 DEF Count, Gone, empty, ring
<1>3. ASSUME NEW i PROVE ValueAt(i)' = ValueAt(i)
  <2>1. CASE Storing
    <3>1. PICK u \in Threads : pc[u] = "enq_store"
      BY <2>1 DEF Storing
    <3>2. pc'[u] = "enq_store" /\ hold'[u] = hold[u] /\ mHead' = mHead
      BY <1>1, <3>1 DEF ring
    <3>3. StoringOK /\ StoringOK'
      BY StoringValue, PTL
    <3>4. ValueAt(mHead) = hold[u] /\ ValueAt(mHead)' = hold'[u]
      BY <3>1, <3>2, <3>3 DEF StoringOK
    <3> QED
      BY <1>1, <3>2, <3>4 DEF ValueAt, ring
  <2>2. CASE ~Storing
    BY <1>1, <2>2 DEF ValueAt, Storing, ring
  <2> QED
    BY <2>1, <2>2
<1>4. Contents' = Contents
  BY <1>2, <1>3, SameContents DEF Wrap
<1>5. Held(t)' = Held(t)
  BY <1>1 DEF Held
<1> QED
  BY <1>1, <1>4, <1>5, SameHeld DEF Stutter

LEMMA EnqIndexPuts ==
  ASSUME Inv, Inv', NEW t \in Threads, enqIndex(t)
  PROVE  Atomic!Put(t)
<1>1. \A u \in Threads \ {t} : pc[u] \in {"lock", "spin"} /\ pc'[u] = pc[u]
  BY Alone DEF Inside, enqIndex, Goto, Inv, TypeOK
<1>2. pc[t] = "enq_index" /\ pc'[t] = "enq_store" /\ hold' = hold /\ mData' = mData
  BY DEF enqIndex, Goto, Inv, TypeOK
<1>3. Gone = 0 /\ Gone' = 0 /\ ~Storing /\ Storing'
  BY <1>1, <1>2 DEF Gone, Storing
<1>4. hold[t] \in Items
  BY <1>2 DEF Inv, HolderInv, TypeOK
<1>5. Count < N /\ Count' = Count + 1 /\ Count \in Nat
  BY CountFacts, PinnedAssumption
     DEF enqIndex, Count, full, empty, Wrap, Inv, TypeOK, RingInv, Places
<1>6. /\ Wrap(mTail' + Count) = mHead'
      /\ \A j \in 0 .. Count - 1 : Wrap(mTail' + j) = Wrap(mTail + j) /\ Wrap(mTail + j) # mHead'
  BY PinnedAssumption DEF enqIndex, Count, full, empty, Wrap, Inv, TypeOK, RingInv, Places
<1>7. ContentsOK /\ ContentsOK' /\ StoringOK'
  BY ContentsFacts, StoringValue, PTL
<1>8. Len(Contents) = Count /\ Len(Contents') = Count + 1
      /\ Contents \in Seq(Items) /\ Contents' \in Seq(Items)
  BY <1>3, <1>5, <1>7 DEF ContentsOK
<1>9. ASSUME NEW i \in 1 .. Count PROVE Contents'[i] = Contents[i]
  <2>1. i - 1 \in 0 .. Count - 1 /\ mTail + Gone + i - 1 = mTail + (i - 1)
        /\ mTail' + Gone' + i - 1 = mTail' + (i - 1)
    BY <1>3, <1>5, <1>9 DEF Inv, TypeOK, Places
  <2>2. Contents[i] = ValueAt(Wrap(mTail + (i - 1)))
    BY <1>3, <1>5, <1>7, <1>9, <2>1 DEF ContentsOK
  <2>3. Contents'[i] = ValueAt(Wrap(mTail + Gone + i - 1))'
    BY <1>3, <1>5, <1>7, <1>9 DEF ContentsOK
  <2>4. Wrap(mTail' + Gone' + i - 1) = Wrap(mTail + (i - 1)) /\ Wrap(mTail + (i - 1)) # mHead'
    BY <1>6, <2>1
  <2>5. Contents'[i] = mData'[Wrap(mTail + (i - 1))]
    BY <2>3, <2>4 DEF ValueAt, Wrap
  <2> QED
    BY <1>2, <1>3, <2>2, <2>5 DEF ValueAt
<1>10. Contents'[Count + 1] = hold[t]
  <2>1. ASSUME NEW i \in 1 .. Count + 1, i = Count + 1
        PROVE  Contents'[i] = hold[t]
    <3>1. Contents'[i] = ValueAt(Wrap(mTail + Gone + i - 1))'
      BY <1>3, <1>5, <1>7, <2>1 DEF ContentsOK
    <3>2. mTail' + Gone' + i - 1 = mTail' + Count
      BY <1>3, <1>5, <2>1 DEF Inv, TypeOK, Places
    <3>3. Wrap(mTail' + Gone' + i - 1) = mHead'
      BY <1>6, <3>2
    <3>4. ValueAt(Wrap(mTail + Gone + i - 1))' = ValueAt(mHead)'
      BY <3>3 DEF ValueAt, Wrap
    <3>5. ValueAt(mHead)' = hold[t]
      BY <1>2, <1>7 DEF StoringOK
    <3> QED
      BY <3>1, <3>4, <3>5
  <2> QED
    BY <1>5, <2>1
<1>11. Contents' = Append(Contents, hold[t])
  <2>1. /\ Append(Contents, hold[t]) \in Seq(Items)
        /\ Len(Append(Contents, hold[t])) = Count + 1
        /\ \A i \in 1 .. Count : Append(Contents, hold[t])[i] = Contents[i]
        /\ Append(Contents, hold[t])[Count + 1] = hold[t]
    BY <1>4, <1>8, AppendProperties
  <2>2. \A i \in 1 .. Len(Contents') : Contents'[i] = Append(Contents, hold[t])[i]
    BY <1>5, <1>8, <1>9, <1>10, <2>1
  <2> QED
    BY <1>8, <2>1, <2>2, SeqEqual
<1>12. [u \in Threads |-> Held(u)]' = [[u \in Threads |-> Held(u)] EXCEPT ![t] = NoItem]
  BY <1>1, <1>2 DEF Held
<1> QED
  BY <1>2, <1>4, <1>5, <1>8, <1>11, <1>12, PinnedAssumption DEF Atomic!Put, Held

LEMMA EnqStoreStutters ==
  ASSUME Inv, Inv', NEW t \in Threads, enqStore(t)
  PROVE  Stutter
<1>1. \A u \in Threads \ {t} : pc[u] \in {"lock", "spin"} /\ pc'[u] = pc[u] /\ hold'[u] = hold[u]
  BY Alone DEF Inside, enqStore, Goto, Inv, TypeOK
<1>2. /\ pc[t] = "enq_store" /\ pc'[t] = "unlock" /\ mHead' = mHead /\ mTail' = mTail
      /\ mData' = [mData EXCEPT ![mHead] = hold[t]] /\ hold'[t] = NoItem
  BY DEF enqStore, Goto, Inv, TypeOK
<1>3. Gone = 0 /\ Gone' = 0 /\ ~Storing' /\ Count' = Count
  BY <1>1, <1>2 DEF Gone, Storing, Count, empty
<1>4. Storing /\ ValueAt(mHead) = hold[t]
  BY <1>2, StoringValue DEF StoringOK
<1>6. ASSUME NEW i \in 1 .. Count - Gone
      PROVE  ValueAt(Wrap(mTail + Gone + i - 1))' = ValueAt(Wrap(mTail + Gone + i - 1))
  <2>1. Count \in Nat /\ i - 1 \in 0 .. Count - 1 /\ mTail + Gone + i - 1 = mTail + (i - 1)
    BY <1>3, CountFacts, PinnedAssumption DEF Inv, TypeOK, Places
  <2>2. Wrap(mTail + Gone + i - 1) \in Places
    BY <2>1, CountFacts
  <2>3. Wrap(mTail + Gone + i - 1)' = Wrap(mTail + Gone + i - 1)
    BY <1>2, <1>3 DEF Wrap
  <2> QED
    BY <1>2, <1>3, <1>4, <2>2, <2>3 DEF ValueAt, Inv, TypeOK
<1>7. Contents' = Contents
  BY <1>3, <1>6, SameContents
<1>8. Held(t)' = Held(t)
  BY <1>2 DEF Held
<1> QED
  BY <1>1, <1>7, <1>8, SameHeld DEF Stutter

LEMMA DeqReadTakes ==
  ASSUME Inv, Inv', NEW t \in Threads, deqRead(t)
  PROVE  Stutter \/ Atomic!Take(t)
<1>1. \A u \in Threads \ {t} : pc[u] \in {"lock", "spin"} /\ pc'[u] = pc[u] /\ hold'[u] = hold[u]
  BY Alone DEF Inside, deqRead, Goto, Inv, TypeOK
<1>2. /\ pc[t] = "deq_read" /\ mHead' = mHead /\ mTail' = mTail /\ mData' = mData
      /\ hold[t] = NoItem
  BY DEF deqRead, Goto, Inv, TypeOK, ring, HolderInv
<1>3. Gone = 0 /\ ~Storing /\ ~Storing' /\ Count' = Count
  BY <1>1, <1>2 DEF Gone, Storing, Count, empty, deqRead, Goto, Inv, TypeOK
<1>4. \A i : ValueAt(i) = mData[i] /\ ValueAt(i)' = mData[i]
  BY <1>2, <1>3 DEF ValueAt
<1>5. CASE empty
  <2>1. pc'[t] = "unlock" /\ hold' = hold
    BY <1>5 DEF deqRead, Goto, Inv, TypeOK
  <2>2. Gone' = 0
    BY <1>1, <2>1 DEF Gone
  <2>3. Contents' = Contents
    BY <1>2, <1>3, <1>4, <2>2, SameContents DEF Wrap
  <2>4. Held(t)' = Held(t)
    BY <1>2, <2>1 DEF Held
  <2> QED
    BY <1>1, <2>3, <2>4, SameHeld DEF Stutter
<1>6. CASE ~empty
  <2>1. pc'[t] = "deq_index" /\ hold'[t] = mData[mTail]
    BY <1>6 DEF deqRead, Goto, Inv, TypeOK
  <2>2. Gone' = 1
    BY <2>1 DEF Gone
  <2>3. ContentsOK /\ ContentsOK'
    BY ContentsFacts, PTL
  <2>4. Count \in Nat \ {0} /\ mTail \in Places
    BY <1>6, CountFacts, PinnedAssumption DEF Inv, TypeOK, empty
  <2>5. Contents # <<>> /\ Contents \in Seq(Items) /\ Len(Contents) = Count
    BY <1>3, <2>3, <2>4 DEF ContentsOK
  <2>6. Head(Contents) = mData[mTail]
    <3>1. Wrap(mTail + Gone + 1 - 1) = mTail
      BY <1>3, <2>4, PinnedAssumption DEF Wrap, Places
    <3>2. Contents[1] = mData[mTail]
      BY <1>3, <1>4, <2>3, <2>4, <3>1 DEF ContentsOK
    <3> QED
      BY <2>5, <3>2
  <2>7. Contents' = Tail(Contents)
    <3>1. Contents' \in Seq(Items) /\ Len(Contents') = Count - 1
      BY <1>3, <2>2, <2>3 DEF ContentsOK
    <3>2. Tail(Contents) \in Seq(Items) /\ Len(Tail(Contents)) = Count - 1
          /\ \A i \in 1 .. Count - 1 : Tail(Contents)[i] = Contents[i + 1]
      BY <2>5, HeadTailProperties
    <3>3. ASSUME NEW i \in 1 .. Count - 1 PROVE Contents'[i] = Contents[i + 1]
      <4>1. Contents'[i] = ValueAt(Wrap(mTail + Gone + i - 1))'
        BY <1>3, <2>2, <2>3, <3>3 DEF ContentsOK
      <4>2. i + 1 \in 1 .. Count - Gone
        BY <1>3, <2>4, <3>3
      <4>3. Contents[i + 1] = ValueAt(Wrap(mTail + Gone + (i + 1) - 1))
        BY <2>3, <4>2 DEF ContentsOK
      <4>4. mTail' + Gone' + i - 1 = mTail + Gone + (i + 1) - 1
        BY <1>2, <1>3, <2>2, <2>4 DEF Places
      <4>5. Wrap(mTail + Gone + i - 1)' = Wrap(mTail + Gone + (i + 1) - 1)
        BY <4>4 DEF Wrap
      <4>6. ValueAt(Wrap(mTail + Gone + i - 1))' = mData[Wrap(mTail + Gone + (i + 1) - 1)]
        BY <1>2, <1>3, <4>5 DEF ValueAt
      <4> QED
        BY <1>4, <4>1, <4>3, <4>6
    <3> QED
      BY <3>1, <3>2, <3>3, SeqEqual
  <2>8. [u \in Threads |-> Held(u)]'
          = [[u \in Threads |-> Held(u)] EXCEPT ![t] = Head(Contents)]
    BY <1>1, <2>1, <2>6 DEF Held
  <2> QED
    BY <1>2, <2>5, <2>7, <2>8 DEF Atomic!Take, Held
<1> QED
  BY <1>5, <1>6

LEMMA DeqIndexStutters ==
  ASSUME Inv, Inv', NEW t \in Threads, deqIndex(t)
  PROVE  Stutter
<1>1. \A u \in Threads \ {t} : pc[u] \in {"lock", "spin"} /\ pc'[u] = pc[u] /\ hold'[u] = hold[u]
  BY Alone DEF Inside, deqIndex, Goto, Inv, TypeOK
<1>2. /\ pc[t] = "deq_index" /\ pc'[t] = "unlock" /\ mData' = mData /\ hold' = hold
  BY DEF deqIndex, Goto, Inv, TypeOK
<1>3. Gone = 1 /\ Gone' = 0 /\ ~Storing /\ ~Storing'
  BY <1>1, <1>2 DEF Gone, Storing
<1>4. mHead \in Places /\ mTail \in Places /\ ~empty
  BY <1>2 DEF Inv, TypeOK, RingInv, HolderInv, empty
<1>5. /\ mTail = mHead => mHead' = -1 /\ mTail' = -1
      /\ mTail # mHead => mHead' = mHead /\ mTail' = Wrap(mTail + 1)
  BY DEF deqIndex, Advanced
<1>6. Count' = Count - 1 /\ Count \in Nat
  BY <1>4, <1>5, PinnedAssumption DEF Count, Places, Wrap, empty
<1>7. ASSUME NEW i \in 1 .. Count - Gone
      PROVE  ValueAt(Wrap(mTail + Gone + i - 1))' = ValueAt(Wrap(mTail + Gone + i - 1))
  <2>1. Wrap(mTail' + Gone' + i - 1) = Wrap(mTail + Gone + i - 1)
    BY <1>3, <1>4, <1>5, PinnedAssumption DEF Count, Places, Wrap, empty
  <2>2. Wrap(mTail + Gone + i - 1)' = Wrap(mTail + Gone + i - 1)
    BY <2>1 DEF Wrap
  <2> QED
    BY <1>2, <1>3, <2>2 DEF ValueAt
<1>8. Contents' = Contents
  BY <1>3, <1>6, <1>7, SameContents
<1>9. Held(t)' = Held(t)
  BY <1>2 DEF Held
<1> QED
  BY <1>1, <1>8, <1>9, SameHeld DEF Stutter

LEMMA InitRefines == Init => Atomic!Init
<1> SUFFICES ASSUME Init PROVE Atomic!Init
  OBVIOUS
<1>1. Count = 0 /\ Gone = 0
  BY DEF Init, Count, empty, Gone
<1>2. Contents = <<>>
  BY <1>1 DEF Contents
<1>3. [t \in Threads |-> Held(t)] = InitialHold
  BY PinnedAssumption DEF Init, Held
<1> QED
  BY <1>2, <1>3 DEF Atomic!Init

LEMMA NextRefines ==
  Inv /\ Inv' /\ [Next]_vars => [Atomic!Next]_<<Contents, [t \in Threads |-> Held(t)]>>
<1> SUFFICES ASSUME Inv, Inv', [Next]_vars
             PROVE  Stutter \/ Atomic!Next
  BY DEF Stutter
<1>1. CASE UNCHANGED vars
  <2>1. Contents' = Contents
    BY <1>1 DEF vars, ring, Contents, Count, Gone, ValueAt, Storing, Wrap, empty
  <2>2. \A u \in Threads : Held(u)' = Held(u)
    BY <1>1 DEF vars, Held
  <2> QED
    BY <2>1, <2>2 DEF Stutter
<1>2. ASSUME NEW t \in Threads, Step(t) PROVE Stutter \/ Atomic!Next
  BY <1>2, LockStutters, EnqIndexPuts, EnqStoreStutters, DeqReadTakes, DeqIndexStutters
     DEF Step, Atomic!Next
<1> QED
  BY <1>1, <1>2 DEF Next

\* The ring behind the spin lock is an atomic bounded first-in first-out queue:
\* what Scheduler takes the pinned queues for.
THEOREM PinnedRefinement == Spec => ImplementsFIFO
<1>1. Inv /\ Inv' /\ [Next]_vars => [Atomic!Next]_<<Contents, [t \in Threads |-> Held(t)]>>
  BY NextRefines
<1> QED
  BY <1>1, InitRefines, PinnedInvariant, PTL DEF Spec, ImplementsFIFO, Atomic!Spec
==============================================================================
