-------------------------- MODULE MPMCQueueProofs ----------------------------
(***************************************************************************)
(* Proofs about MPMCQueue, for any number of threads, items and cells.     *)
(***************************************************************************)
EXTENDS MPMCQueue, SequenceTheorems, TLAPS

-----------------------------------------------------------------------------
(***************************************************************************)
(* The cells of a ring.                                                    *)
(***************************************************************************)
\* Positions less than a lap apart have different cells (pos & mBufferMask).
LEMMA ModUnique ==
  ASSUME NEW N \in Nat, N >= 2, NEW p \in Nat, NEW q \in Nat, p < q, q < p + N
  PROVE  p % N # q % N
<1> DEFINE a == p \div N
           b == q \div N
<1>1. a \in Int /\ b \in Int
  OBVIOUS
<1>2. p = N * a + (p % N) /\ q = N * b + (q % N)
  OBVIOUS
<1>3. ASSUME p % N = q % N PROVE FALSE
  <2>1. N * b - N * a = q - p
    BY <1>1, <1>2, <1>3
  <2> HIDE DEF a, b
  <2>2. N * (b - a) = q - p
    BY <2>1, <1>1
  <2>3. CASE b - a <= 0
    BY <2>2, <2>3, <1>1
  <2>4. CASE b - a >= 1
    BY <2>2, <2>4, <1>1
  <2> QED
    BY <2>3, <2>4, <1>1
<1> QED
  BY <1>3

\* Positions one lap apart share a cell.
LEMMA ModLap ==
  ASSUME NEW N \in Nat, N >= 2, NEW p \in Nat
  PROVE  (p + N) % N = p % N
<1> DEFINE a == p \div N
           b == (p + N) \div N
           r == p % N
           s == (p + N) % N
<1>1. a \in Int /\ b \in Int /\ r \in 0 .. N - 1 /\ s \in 0 .. N - 1
  OBVIOUS
<1>2. p = N * a + r /\ p + N = N * b + s
  OBVIOUS
<1> HIDE DEF a, b, r, s
<1>3. N * (b - a - 1) = r - s
  <2>1. N * (b - a - 1) = N * b - N * a - N
    BY <1>1
  <2> QED
    BY <1>1, <1>2, <2>1
<1>4. b - a - 1 = 0
  <2>1. CASE b - a - 1 >= 1
    BY <1>1, <1>3, <2>1
  <2>2. CASE b - a - 1 <= -1
    <3>1. N * (b - a - 1) <= -N
      BY <1>1, <2>2
    <3> QED
      BY <1>1, <1>3, <3>1
  <2> QED
    BY <1>1, <2>1, <2>2
<1>5. N * (b - a - 1) = 0
  BY <1>1, <1>4
<1>6. r = s
  BY <1>1, <1>3, <1>5
<1> QED
  BY <1>6 DEF r, s

\* The three facts about Cell that the proofs below use.
LEMMA CellFacts ==
  /\ \A p \in Nat : Cell(p) \in Cells
  /\ \A p, q \in Nat : p < q /\ q < p + Size => Cell(p) # Cell(q)
  /\ \A p \in Nat : Cell(p + Size) = Cell(p)
<1>1. \A p \in Nat : Cell(p) \in Cells
  BY QueueAssumption DEF Cell, Cells
<1>2. \A p, q \in Nat : p < q /\ q < p + Size => Cell(p) # Cell(q)
  BY QueueAssumption, ModUnique DEF Cell
<1>3. \A p \in Nat : Cell(p + Size) = Cell(p)
  BY QueueAssumption, ModLap DEF Cell
<1> QED
  BY <1>1, <1>2, <1>3

\* The positions that threads own lie in one lap, so their cells differ.
LEMMA InvImpliesCellExclusive == Inv => CellExclusive
<1> SUFFICES ASSUME Inv, NEW t \in Threads, NEW u \in Threads,
                    t # u, Owns(t), Owns(u)
             PROVE  Cell(pos[t]) # Cell(pos[u])
  BY DEF CellExclusive
<1>1. pos[t] \in Nat /\ pos[u] \in Nat /\ pos[t] # pos[u]
  BY DEF Inv, TypeOK, OwnersInv
<1>2. pos[t] < pos[u] + Size /\ pos[u] < pos[t] + Size
  BY <1>1, QueueAssumption DEF Inv, TypeOK, PositionsInv, OwnersInv, Owns
<1>3. CASE pos[t] < pos[u]
  BY <1>1, <1>2, <1>3, CellFacts
<1>4. CASE pos[u] < pos[t]
  BY <1>1, <1>2, <1>4, CellFacts
<1> QED
  BY <1>1, <1>3, <1>4
-----------------------------------------------------------------------------
(***************************************************************************)
(* The inductive invariant.                                                *)
(***************************************************************************)
\* The queue as start() leaves it satisfies the invariant.
LEMMA InitInv == Init => Inv
<1> SUFFICES ASSUME Init PROVE Inv
  OBVIOUS
<1> USE QueueAssumption
<1>0. \A p \in Nat : p < Size => Cell(p) = p
  BY DEF Cell
<1>1. TypeOK
  <2>1. Len(InitialItems) \in Nat /\ \A i \in 1 .. Len(InitialItems) : InitialItems[i] \in Items
    OBVIOUS
  <2> QED
    BY <2>1 DEF Init, TypeOK, Cells, Labels
<1>2. PositionsInv
  BY DEF Init, PositionsInv
<1>3. OwnersInv
  BY DEF Init, OwnersInv, Owns, Enqueuing, Dequeuing
<1>4. FilledInv
  BY <1>0 DEF Init, FilledInv, Cells
<1>5. FreeInv
  BY <1>0 DEF Init, FreeInv, Cells
<1>6. CasInv
  BY DEF Init, CasInv
<1>7. ItemsInv
  BY <1>0 DEF Init, ItemsInv, Cells
<1> QED
  BY <1>1, <1>2, <1>3, <1>4, <1>5, <1>6, <1>7 DEF Inv

\* The steps of enqueue that change no shared state.
LEMMA EnqueueLocalStep ==
  ASSUME Inv, NEW t \in Threads, enqLoad(t) \/ enqSeq(t) \/ enqFalse(t)
  PROVE  Inv'
<1> USE DEF shared, Goto, SeqAt, enqLoad, enqSeq, enqFalse
<1>1. TypeOK' /\ PositionsInv'
  BY DEF Inv, TypeOK, PositionsInv, Labels
<1>2. OwnersInv'
  BY DEF Inv, TypeOK, OwnersInv, Owns, Enqueuing, Dequeuing
<1>3. FilledInv' /\ FreeInv'
  BY DEF Inv, TypeOK, FilledInv, FreeInv, Enqueuing, Dequeuing
<1>4. CasInv'
  <2>1. CASE enqLoad(t)
    BY <2>1 DEF Inv, TypeOK, CasInv
  <2>2. CASE enqSeq(t)
    BY <2>2, CellFacts DEF Inv, TypeOK, CasInv
  <2>3. CASE enqFalse(t)
    BY <2>3 DEF Inv, TypeOK, CasInv
  <2> QED
    BY <2>1, <2>2, <2>3
<1>5. ItemsInv'
  BY DEF Inv, TypeOK, ItemsInv
<1> QED
  BY <1>1, <1>2, <1>3, <1>4, <1>5 DEF Inv

\* The steps of dequeue that change no shared state.
LEMMA DequeueLocalStep ==
  ASSUME Inv, NEW t \in Threads, deqLoad(t) \/ deqSeq(t) \/ deqRead(t)
  PROVE  Inv'
<1> USE DEF shared, Goto, SeqAt, DeqDiff, deqLoad, deqSeq, deqRead
<1>1. TypeOK' /\ PositionsInv'
  BY CellFacts DEF Inv, TypeOK, PositionsInv, Labels, ItemsInv
<1>2. OwnersInv'
  BY DEF Inv, TypeOK, OwnersInv, Owns, Enqueuing, Dequeuing
<1>3. FilledInv' /\ FreeInv'
  BY DEF Inv, TypeOK, FilledInv, FreeInv, Enqueuing, Dequeuing
<1>4. CasInv'
  <2>1. CASE deqLoad(t)
    BY <2>1 DEF Inv, TypeOK, CasInv
  <2>2. CASE deqSeq(t)
    BY <2>2, CellFacts DEF Inv, TypeOK, CasInv
  <2>3. CASE deqRead(t)
    BY <2>3 DEF Inv, TypeOK, CasInv
  <2> QED
    BY <2>1, <2>2, <2>3
<1>5. ItemsInv'
  <2>1. CASE deqLoad(t)
    BY <2>1 DEF Inv, TypeOK, ItemsInv
  <2>2. CASE deqSeq(t)
    BY <2>2 DEF Inv, TypeOK, ItemsInv
  <2>3. CASE deqRead(t)
    <3>1. data_[Cell(pos[t])] \in Items
      BY <2>3, CellFacts DEF Inv, TypeOK, ItemsInv
    <3> QED
      BY <2>3, <3>1, QueueAssumption DEF Inv, TypeOK, ItemsInv
  <2> QED
    BY <2>1, <2>2, <2>3
<1> QED
  BY <1>1, <1>2, <1>3, <1>4, <1>5 DEF Inv

\* A CAS of enqueue, which makes the thread the owner of a free cell.
LEMMA EnqueueCasStep ==
  ASSUME Inv, NEW t \in Threads, enqCas(t)
  PROVE  Inv'
<1> USE QueueAssumption DEF Goto, SeqAt
<1>1. CASE mEnqueuePos # mEnqueuePos'
  <2>1. /\ pc[t] = "enq_cas" /\ mEnqueuePos = pos[t]
        /\ mEnqueuePos' = pos[t] + 1 /\ pc' = [pc EXCEPT ![t] = "enq_write"]
        /\ UNCHANGED <<mDequeuePos, sequence_, data_, pos, hold>>
    BY <1>1 DEF enqCas
  <2>2. sequence_[Cell(mEnqueuePos)] = mEnqueuePos
    BY <2>1 DEF Inv, CasInv
  <2>3. mEnqueuePos < mDequeuePos + Size
    <3>1. CASE mEnqueuePos = mDequeuePos + Size
      <4>1. Cell(mEnqueuePos) = Cell(mDequeuePos) /\ mDequeuePos < mEnqueuePos
        BY <3>1, CellFacts DEF Inv, TypeOK
      <4>2. sequence_[Cell(mDequeuePos)] \in {mDequeuePos, mDequeuePos + 1}
        BY <4>1 DEF Inv, TypeOK, FilledInv
      <4> QED
        BY <2>2, <3>1, <4>1, <4>2 DEF Inv, TypeOK
    <3> QED
      BY <3>1 DEF Inv, TypeOK, PositionsInv
  <2>4. TypeOK' /\ PositionsInv'
    BY <2>1, <2>3 DEF Inv, TypeOK, PositionsInv, Labels
  <2>5. OwnersInv'
    <3>1. ASSUME NEW u \in Threads, Dequeuing(u)
          PROVE  pos[u] + Size # mEnqueuePos
      <4>1. pos[u] \in Nat /\ sequence_[Cell(pos[u])] = pos[u] + 1
        BY <3>1 DEF Inv, TypeOK, OwnersInv
      <4>2. Cell(pos[u] + Size) = Cell(pos[u])
        BY <4>1, CellFacts
      <4> QED
        BY <2>2, <4>1, <4>2
    <3>2. \A u \in Threads : u # t => (Enqueuing(u)' <=> Enqueuing(u)) /\ (Dequeuing(u)' <=> Dequeuing(u))
      BY <2>1 DEF Inv, TypeOK, Enqueuing, Dequeuing
    <3>3. Enqueuing(t)' /\ ~Dequeuing(t)'
      BY <2>1 DEF Inv, TypeOK, Enqueuing, Dequeuing
    <3>4. \A u \in Threads : Enqueuing(u)' =>
             /\ mDequeuePos' <= pos[u]' /\ pos[u]' < mEnqueuePos'
             /\ SeqAt(u)' = pos[u]'
      BY <2>1, <2>2, <3>2 DEF Inv, TypeOK, PositionsInv, OwnersInv
    <3>5. \A u \in Threads : Dequeuing(u)' =>
             /\ mEnqueuePos' <= pos[u]' + Size /\ pos[u]' < mDequeuePos'
             /\ SeqAt(u)' = pos[u]' + 1
      <4> SUFFICES ASSUME NEW u \in Threads, Dequeuing(u)'
                   PROVE  /\ mEnqueuePos + 1 <= pos[u] + Size /\ pos[u] < mDequeuePos
                          /\ SeqAt(u) = pos[u] + 1
        BY <2>1
      <4>1. Dequeuing(u) /\ pos[u] \in Nat
        BY <3>2, <3>3 DEF Inv, TypeOK
      <4>2. pos[u] + Size # mEnqueuePos
        BY <4>1, <3>1
      <4>3. /\ mEnqueuePos <= pos[u] + Size /\ pos[u] < mDequeuePos
            /\ SeqAt(u) = pos[u] + 1
        BY <4>1 DEF Inv, OwnersInv
      <4>4. mEnqueuePos \in Nat
        BY DEF Inv, TypeOK
      <4>5. mEnqueuePos + 1 <= pos[u] + Size
        BY <4>1, <4>2, <4>3, <4>4
      <4> QED
        BY <4>3, <4>5
    <3>6. \A u \in Threads : u # t /\ Owns(u)' => pos[u] # pos[t]
      BY <2>1, <3>2 DEF Inv, TypeOK, PositionsInv, OwnersInv, Owns
    <3>7. \A u, v \in Threads : u # v /\ Owns(u)' /\ Owns(v)' => pos[u]' # pos[v]'
      BY <2>1, <3>2, <3>6 DEF Inv, OwnersInv, Owns
    <3> QED
      BY <3>4, <3>5, <3>7 DEF OwnersInv
  <2>6. FilledInv'
    <3>1. \A u \in Threads : Enqueuing(u) => Enqueuing(u)'
      BY <2>1 DEF Inv, TypeOK, Enqueuing
    <3>2. Enqueuing(t)'
      BY <2>1 DEF Inv, TypeOK, Enqueuing
    <3> QED
      BY <2>1, <2>2, <3>1, <3>2 DEF Inv, TypeOK, FilledInv
  <2>9. FreeInv'
    <3>1. \A u \in Threads : Dequeuing(u) => Dequeuing(u)'
      BY <2>1 DEF Inv, TypeOK, Dequeuing
    <3> QED
      BY <2>1, <3>1 DEF Inv, TypeOK, FreeInv
  <2>7. CasInv'
    BY <2>1 DEF Inv, TypeOK, CasInv
  <2>8. ItemsInv'
    BY <2>1, <2>2, <2>3 DEF Inv, TypeOK, PositionsInv, ItemsInv
  <2> QED
    BY <2>4, <2>5, <2>6, <2>7, <2>8, <2>9 DEF Inv
<1>2. CASE mEnqueuePos = mEnqueuePos'
  <2>1. /\ pc[t] = "enq_cas" /\ pc' = [pc EXCEPT ![t] = "enq_seq"]
        /\ pos' = [pos EXCEPT ![t] = mEnqueuePos]
        /\ UNCHANGED <<mEnqueuePos, mDequeuePos, sequence_, data_, hold>>
    BY <1>2 DEF enqCas, Inv, TypeOK
  <2>2. TypeOK' /\ PositionsInv'
    BY <2>1 DEF Inv, TypeOK, PositionsInv, Labels
  <2>3. OwnersInv'
    BY <2>1 DEF Inv, TypeOK, OwnersInv, Owns, Enqueuing, Dequeuing
  <2>4. FilledInv' /\ FreeInv'
    BY <2>1 DEF Inv, TypeOK, FilledInv, FreeInv, Enqueuing, Dequeuing
  <2>5. CasInv' /\ ItemsInv'
    BY <2>1 DEF Inv, TypeOK, CasInv, ItemsInv
  <2> QED
    BY <2>2, <2>3, <2>4, <2>5 DEF Inv
<1> QED
  BY <1>1, <1>2

\* A CAS of dequeue, which makes the thread the owner of a filled cell.
LEMMA DequeueCasStep ==
  ASSUME Inv, NEW t \in Threads, deqCas(t)
  PROVE  Inv'
<1> USE QueueAssumption DEF Goto, SeqAt
<1>1. CASE mDequeuePos # mDequeuePos'
  <2>1. /\ pc[t] = "deq_cas" /\ mDequeuePos = pos[t]
        /\ mDequeuePos' = pos[t] + 1 /\ pc' = [pc EXCEPT ![t] = "deq_read"]
        /\ UNCHANGED <<mEnqueuePos, sequence_, data_, pos, hold>>
    BY <1>1 DEF deqCas
  <2>2. sequence_[Cell(mDequeuePos)] = mDequeuePos + 1
    BY <2>1 DEF Inv, CasInv
  <2>3. mDequeuePos < mEnqueuePos
    <3>1. CASE mDequeuePos = mEnqueuePos
      <4>1. sequence_[Cell(mDequeuePos)] \in {mDequeuePos, mDequeuePos - Size + 1}
        BY <3>1 DEF Inv, TypeOK, FreeInv
      <4> QED
        BY <2>2, <4>1 DEF Inv, TypeOK
    <3> QED
      BY <3>1 DEF Inv, TypeOK, PositionsInv
  <2>4. TypeOK' /\ PositionsInv'
    BY <2>1, <2>3 DEF Inv, TypeOK, PositionsInv, Labels
  <2>5. OwnersInv'
    <3>1. ASSUME NEW u \in Threads, Enqueuing(u)
          PROVE  pos[u] # mDequeuePos
      BY <2>2, <3>1 DEF Inv, TypeOK, OwnersInv
    <3>2. \A u \in Threads : u # t => (Enqueuing(u)' <=> Enqueuing(u)) /\ (Dequeuing(u)' <=> Dequeuing(u))
      BY <2>1 DEF Inv, TypeOK, Enqueuing, Dequeuing
    <3>3. Dequeuing(t)' /\ ~Enqueuing(t)'
      BY <2>1 DEF Inv, TypeOK, Enqueuing, Dequeuing
    <3>4. \A u \in Threads : Enqueuing(u)' =>
             /\ mDequeuePos' <= pos[u]' /\ pos[u]' < mEnqueuePos'
             /\ SeqAt(u)' = pos[u]'
      <4> SUFFICES ASSUME NEW u \in Threads, Enqueuing(u)'
                   PROVE  /\ mDequeuePos + 1 <= pos[u] /\ pos[u] < mEnqueuePos
                          /\ SeqAt(u) = pos[u]
        BY <2>1
      <4>1. Enqueuing(u) /\ pos[u] \in Nat
        BY <3>2, <3>3 DEF Inv, TypeOK
      <4>2. pos[u] # mDequeuePos
        BY <4>1, <3>1
      <4>3. /\ mDequeuePos <= pos[u] /\ pos[u] < mEnqueuePos
            /\ SeqAt(u) = pos[u]
        BY <4>1 DEF Inv, OwnersInv
      <4> QED
        BY <4>1, <4>2, <4>3 DEF Inv, TypeOK
    <3>5. \A u \in Threads : Dequeuing(u)' =>
             /\ mEnqueuePos' <= pos[u]' + Size /\ pos[u]' < mDequeuePos'
             /\ SeqAt(u)' = pos[u]' + 1
      BY <2>1, <2>2, <3>2 DEF Inv, TypeOK, PositionsInv, OwnersInv
    <3>6. \A u \in Threads : u # t /\ Owns(u)' => pos[u] # pos[t]
      BY <2>1, <3>1, <3>2 DEF Inv, TypeOK, OwnersInv, Owns
    <3>7. \A u, v \in Threads : u # v /\ Owns(u)' /\ Owns(v)' => pos[u]' # pos[v]'
      BY <2>1, <3>2, <3>6 DEF Inv, OwnersInv, Owns
    <3> QED
      BY <3>4, <3>5, <3>7 DEF OwnersInv
  <2>6. FilledInv'
    <3>1. \A u \in Threads : Enqueuing(u) => Enqueuing(u)'
      BY <2>1 DEF Inv, TypeOK, Enqueuing
    <3> QED
      BY <2>1, <3>1 DEF Inv, TypeOK, FilledInv
  <2>7. FreeInv'
    <3>1. \A u \in Threads : Dequeuing(u) => Dequeuing(u)'
      BY <2>1 DEF Inv, TypeOK, Dequeuing
    <3>2. Dequeuing(t)'
      BY <2>1 DEF Inv, TypeOK, Dequeuing
    <3>3. sequence_[Cell(mDequeuePos + Size)] = mDequeuePos + 1
      BY <2>2, CellFacts DEF Inv, TypeOK
    <3> SUFFICES ASSUME NEW p \in mEnqueuePos .. mDequeuePos + Size
                 PROVE  \/ sequence_[Cell(p)] = p
                        \/ /\ sequence_[Cell(p)] = p - Size + 1
                           /\ \E u \in Threads : Dequeuing(u)' /\ pos[u] = p - Size
      BY <2>1 DEF FreeInv, Inv, TypeOK
    <3>4. CASE p = mDequeuePos + Size
      <4>1. p - Size = mDequeuePos
        BY <3>4 DEF Inv, TypeOK
      <4> QED
        BY <2>1, <3>2, <3>3, <3>4, <4>1
    <3>5. CASE p \in mEnqueuePos .. mDequeuePos + Size - 1
      BY <3>1, <3>5 DEF Inv, FreeInv
    <3> QED
      BY <3>4, <3>5 DEF Inv, TypeOK
  <2>8. CasInv'
    BY <2>1 DEF Inv, TypeOK, CasInv
  <2>9. ItemsInv'
    BY <2>1, <2>2, <2>3 DEF Inv, TypeOK, ItemsInv
  <2> QED
    BY <2>4, <2>5, <2>6, <2>7, <2>8, <2>9 DEF Inv
<1>2. CASE mDequeuePos = mDequeuePos'
  <2>1. /\ pc[t] = "deq_cas" /\ pc' = [pc EXCEPT ![t] = "deq_seq"]
        /\ pos' = [pos EXCEPT ![t] = mDequeuePos]
        /\ UNCHANGED <<mEnqueuePos, mDequeuePos, sequence_, data_, hold>>
    BY <1>2 DEF deqCas, Inv, TypeOK
  <2>2. TypeOK' /\ PositionsInv'
    BY <2>1 DEF Inv, TypeOK, PositionsInv, Labels
  <2>3. OwnersInv'
    BY <2>1 DEF Inv, TypeOK, OwnersInv, Owns, Enqueuing, Dequeuing
  <2>4. FilledInv' /\ FreeInv'
    BY <2>1 DEF Inv, TypeOK, FilledInv, FreeInv, Enqueuing, Dequeuing
  <2>5. CasInv' /\ ItemsInv'
    BY <2>1 DEF Inv, TypeOK, CasInv, ItemsInv
  <2> QED
    BY <2>2, <2>3, <2>4, <2>5 DEF Inv
<1> QED
  BY <1>1, <1>2

\* The cell of an owner is not the cell of any other position of the lap.
LEMMA OwnCell ==
  ASSUME Inv, NEW t \in Threads, Owns(t)
  PROVE  /\ pos[t] \in Nat /\ Cell(pos[t]) \in Cells
         /\ \A u \in Threads : u # t /\ Owns(u) => Cell(pos[u]) # Cell(pos[t])
         /\ \A p \in mDequeuePos .. mEnqueuePos - 1 :
              p # pos[t] => Cell(p) # Cell(pos[t])
         /\ \A p \in mEnqueuePos .. mDequeuePos + Size - 1 :
              p # pos[t] + Size => Cell(p) # Cell(pos[t])
<1>1. pos[t] \in Nat /\ Cell(pos[t]) \in Cells /\ mDequeuePos \in Nat /\ mEnqueuePos \in Nat
  BY CellFacts DEF Inv, TypeOK
<1>2. \A u \in Threads : u # t /\ Owns(u) => Cell(pos[u]) # Cell(pos[t])
  BY InvImpliesCellExclusive DEF CellExclusive
<1>3. /\ pos[t] < mEnqueuePos /\ mEnqueuePos <= pos[t] + Size
      /\ mDequeuePos <= mEnqueuePos /\ mEnqueuePos <= mDequeuePos + Size
      /\ Enqueuing(t) => mDequeuePos <= pos[t]
      /\ Dequeuing(t) => pos[t] < mDequeuePos
  BY <1>1, QueueAssumption DEF Inv, Owns, OwnersInv, PositionsInv
<1>4. ASSUME NEW p \in mDequeuePos .. mEnqueuePos - 1, p # pos[t]
      PROVE  Cell(p) # Cell(pos[t])
  <2>1. p \in Nat /\ p < pos[t] + Size
    BY <1>1, <1>3, QueueAssumption
  <2>2. CASE pos[t] < p
    BY <1>1, <2>1, <2>2, CellFacts
  <2>3. CASE p < pos[t]
    <3>1. pos[t] < p + Size
      BY <1>1, <1>3, <2>1, QueueAssumption
    <3> QED
      BY <1>1, <2>1, <2>3, <3>1, CellFacts
  <2> QED
    BY <1>1, <1>4, <2>1, <2>2, <2>3
<1>5. ASSUME NEW p \in mEnqueuePos .. mDequeuePos + Size - 1, p # pos[t] + Size
      PROVE  Cell(p) # Cell(pos[t])
  <2>1. p \in Nat /\ pos[t] < p /\ pos[t] + Size \in Nat
    BY <1>1, <1>3, QueueAssumption
  <2>2. CASE p < pos[t] + Size
    BY <1>1, <2>1, <2>2, CellFacts
  <2>3. CASE pos[t] + Size < p
    <3>1. p < (pos[t] + Size) + Size
      BY <1>1, <1>3, <2>1, QueueAssumption
    <3>2. Cell(p) # Cell(pos[t] + Size)
      BY <2>1, <2>3, <3>1, CellFacts
    <3> QED
      BY <1>1, <3>2, CellFacts
  <2> QED
    BY <1>5, <2>1, <2>2, <2>3, QueueAssumption
<1> QED
  BY <1>1, <1>2, <1>4, <1>5

\* The write of an item to the cell of its position.
LEMMA EnqueueWriteStep ==
  ASSUME Inv, NEW t \in Threads, enqWrite(t)
  PROVE  Inv'
<1> USE DEF Goto, SeqAt
<1>1. Owns(t)
  BY DEF enqWrite, Owns, Enqueuing
<1>2. hold[t] \in Items
  BY DEF Inv, TypeOK, ItemsInv, enqWrite
<1>3. TypeOK' /\ PositionsInv'
  BY <1>1, <1>2, OwnCell DEF Inv, TypeOK, PositionsInv, Labels, enqWrite
<1>4. OwnersInv'
  BY DEF Inv, TypeOK, OwnersInv, Owns, Enqueuing, Dequeuing, enqWrite
<1>5. FilledInv' /\ FreeInv'
  BY DEF Inv, TypeOK, FilledInv, FreeInv, Enqueuing, Dequeuing, enqWrite
<1>6. CasInv'
  BY DEF Inv, TypeOK, CasInv, enqWrite
<1>7. ItemsInv'
  <2>1. \A u \in Threads : u # t /\ Owns(u) =>
          data_'[Cell(pos[u])] = data_[Cell(pos[u])]
    BY <1>1, OwnCell DEF Inv, TypeOK, enqWrite
  <2>2. data_'[Cell(pos[t])] = hold[t]
    BY <1>1, OwnCell DEF Inv, TypeOK, enqWrite
  <2>3. ASSUME NEW p \in mDequeuePos .. mEnqueuePos - 1, sequence_[Cell(p)] = p + 1
        PROVE  data_'[Cell(p)] # Garbage
    <3>1. CASE p = pos[t]
      BY <1>2, <2>2, <3>1, QueueAssumption
    <3>2. CASE p # pos[t]
      <4>1. Cell(p) # Cell(pos[t]) /\ Cell(p) \in Cells
        BY <1>1, <3>2, OwnCell, CellFacts DEF Inv, TypeOK
      <4>2. data_'[Cell(p)] = data_[Cell(p)]
        BY <4>1 DEF Inv, TypeOK, enqWrite
      <4> QED
        BY <2>3, <4>2 DEF Inv, ItemsInv
    <3> QED
      BY <3>1, <3>2
  <2>4. \A u \in Threads :
       /\ pc'[u] \in {"enq_load", "enq_seq", "enq_cas", "enq_write",
                      "enq_publish", "enq_false", "deq_publish"} => hold[u] # NoItem
       /\ pc'[u] \in {"deq_load", "deq_seq", "deq_cas", "deq_read"} => hold[u] = NoItem
       /\ pc'[u] = "enq_publish" => data_'[Cell(pos[u])] = hold[u]
       /\ pc'[u] = "deq_read" => data_'[Cell(pos[u])] # Garbage
    BY <2>1, <2>2 DEF Inv, TypeOK, ItemsInv, Owns, Enqueuing, Dequeuing, enqWrite
  <2> QED
    BY <2>3, <2>4 DEF ItemsInv, enqWrite
<1> QED
  BY <1>3, <1>4, <1>5, <1>6, <1>7 DEF Inv

\* The publication of an item, which ends enqueue.
LEMMA EnqueuePublishStep ==
  ASSUME Inv, NEW t \in Threads, enqPublish(t)
  PROVE  Inv'
<1> USE QueueAssumption DEF Goto, SeqAt, NextLap, mBufferMask
<1>1. Enqueuing(t) /\ Owns(t) /\ ~Owns(t)'
  BY DEF Inv, TypeOK, enqPublish, Owns, Enqueuing, Dequeuing
<1>2. pos[t] \in Nat /\ Cell(pos[t]) \in Cells /\ mDequeuePos \in Nat /\ mEnqueuePos \in Nat
  BY <1>1, OwnCell DEF Inv, TypeOK
<1>3. sequence_[Cell(pos[t])] = pos[t]
  BY <1>1 DEF Inv, OwnersInv
<1>4. /\ sequence_'[Cell(pos[t])] = pos[t] + 1
      /\ \A i \in Cells : i # Cell(pos[t]) => sequence_'[i] = sequence_[i]
  BY <1>2 DEF Inv, TypeOK, enqPublish
<1>5. \A u \in Threads : u # t => /\ (Enqueuing(u)' <=> Enqueuing(u))
                                  /\ (Dequeuing(u)' <=> Dequeuing(u))
  BY DEF Inv, TypeOK, Enqueuing, Dequeuing, enqPublish
<1>6. TypeOK' /\ PositionsInv'
  BY <1>2 DEF Inv, TypeOK, PositionsInv, Labels, enqPublish
<1>7. OwnersInv'
  <2>1. \A u \in Threads : u # t /\ Owns(u) => sequence_'[Cell(pos[u])] = sequence_[Cell(pos[u])]
    BY <1>1, <1>4, OwnCell, CellFacts DEF Inv, TypeOK
  <2>2. \A u \in Threads : Owns(u)' => u # t /\ Owns(u)
    BY <1>1, <1>5 DEF Owns
  <2>3. \A u \in Threads : Enqueuing(u)' =>
          /\ mDequeuePos <= pos[u] /\ pos[u] < mEnqueuePos
          /\ sequence_'[Cell(pos[u])] = pos[u]
    BY <1>5, <2>1, <2>2 DEF Inv, OwnersInv, Owns
  <2>4. \A u \in Threads : Dequeuing(u)' =>
          /\ mEnqueuePos <= pos[u] + Size /\ pos[u] < mDequeuePos
          /\ sequence_'[Cell(pos[u])] = pos[u] + 1
    BY <1>5, <2>1, <2>2 DEF Inv, OwnersInv, Owns
  <2>5. \A u, v \in Threads : u # v /\ Owns(u)' /\ Owns(v)' => pos[u] # pos[v]
    BY <2>2 DEF Inv, OwnersInv
  <2> QED
    BY <2>3, <2>4, <2>5 DEF OwnersInv, enqPublish
<1>8. FilledInv'
  <2> SUFFICES ASSUME NEW p \in mDequeuePos .. mEnqueuePos - 1
               PROVE  \/ sequence_'[Cell(p)] = p + 1
                      \/ /\ sequence_'[Cell(p)] = p
                         /\ \E u \in Threads : Enqueuing(u)' /\ pos[u] = p
    BY DEF FilledInv, enqPublish
  <2>1. CASE p = pos[t]
    BY <1>4, <2>1
  <2>2. CASE p # pos[t]
    <3>1. Cell(p) # Cell(pos[t]) /\ Cell(p) \in Cells
      BY <1>1, <1>2, <2>2, OwnCell, CellFacts
    <3>2. sequence_'[Cell(p)] = sequence_[Cell(p)]
      BY <1>4, <3>1
    <3> QED
      BY <1>5, <2>2, <3>2 DEF Inv, FilledInv
  <2> QED
    BY <2>1, <2>2
<1>9. FreeInv'
  <2> SUFFICES ASSUME NEW p \in mEnqueuePos .. mDequeuePos + Size - 1
               PROVE  \/ sequence_'[Cell(p)] = p
                      \/ /\ sequence_'[Cell(p)] = p - Size + 1
                         /\ \E u \in Threads : Dequeuing(u)' /\ pos[u] = p - Size
    BY DEF FreeInv, enqPublish
  <2>1. CASE p = pos[t] + Size
    BY <1>1, <1>2, <2>1 DEF Inv, OwnersInv
  <2>2. CASE p # pos[t] + Size
    <3>1. Cell(p) # Cell(pos[t]) /\ Cell(p) \in Cells
      BY <1>1, <1>2, <2>2, OwnCell, CellFacts
    <3>2. sequence_'[Cell(p)] = sequence_[Cell(p)]
      BY <1>4, <3>1
    <3>3. ASSUME NEW u \in Threads, Dequeuing(u), pos[u] = p - Size
          PROVE  Dequeuing(u)' /\ pos[u] = p - Size
      BY <1>1, <1>2, <1>5, <2>2, <3>3 DEF Enqueuing, Dequeuing
    <3> QED
      BY <3>2, <3>3 DEF Inv, FreeInv
  <2> QED
    BY <2>1, <2>2
<1>10. CasInv'
  <2>1. ASSUME NEW u \in Threads
        PROVE  /\ pc'[u] \in {"enq_seq", "enq_cas"} => pos[u] <= mEnqueuePos
               /\ pc'[u] = "enq_cas" /\ pos[u] = mEnqueuePos => sequence_'[Cell(pos[u])] = pos[u]
               /\ pc'[u] \in {"deq_seq", "deq_cas"} => pos[u] <= mDequeuePos
               /\ pc'[u] = "deq_cas" /\ pos[u] = mDequeuePos => sequence_'[Cell(pos[u])] = pos[u] + 1
    <3>1. u # t => pc'[u] = pc[u]
      BY DEF Inv, TypeOK, enqPublish
    <3>2. pc'[t] = "idle"
      BY DEF Inv, TypeOK, enqPublish
    <3>3. pc'[u] \in {"enq_seq", "enq_cas"} => pos[u] <= mEnqueuePos
      BY <3>1, <3>2 DEF Inv, CasInv
    <3>4. pc'[u] \in {"deq_seq", "deq_cas"} => pos[u] <= mDequeuePos
      BY <3>1, <3>2 DEF Inv, CasInv
    <3>5. ASSUME pc'[u] = "enq_cas", pos[u] = mEnqueuePos
          PROVE  sequence_'[Cell(pos[u])] = pos[u]
      <4>1. sequence_[Cell(mEnqueuePos)] = mEnqueuePos
        BY <3>1, <3>2, <3>5 DEF Inv, CasInv
      <4>2. Cell(mEnqueuePos) # Cell(pos[t])
        BY <1>1, <1>2, <1>3, <4>1 DEF Inv, OwnersInv
      <4> QED
        BY <1>2, <1>4, <3>5, <4>1, <4>2, CellFacts
    <3>6. ASSUME pc'[u] = "deq_cas", pos[u] = mDequeuePos
          PROVE  sequence_'[Cell(pos[u])] = pos[u] + 1
      <4>1. sequence_[Cell(mDequeuePos)] = mDequeuePos + 1
        BY <3>1, <3>2, <3>6 DEF Inv, CasInv
      <4>2. Cell(mDequeuePos) # Cell(pos[t])
        <5>1. CASE pos[t] = mDequeuePos + 1
          BY <1>2, <5>1, CellFacts
        <5> QED
          BY <1>2, <1>3, <4>1, <5>1
      <4> QED
        BY <1>2, <1>4, <3>6, <4>1, <4>2, CellFacts
    <3> QED
      BY <3>3, <3>4, <3>5, <3>6
  <2> QED
    BY <2>1 DEF CasInv, enqPublish
<1>11. ItemsInv'
  <2>1. ASSUME NEW p \in mDequeuePos .. mEnqueuePos - 1, sequence_'[Cell(p)] = p + 1
        PROVE  data_[Cell(p)] # Garbage
    <3>1. CASE p = pos[t]
      BY <3>1 DEF Inv, TypeOK, ItemsInv, enqPublish
    <3>2. CASE p # pos[t]
      <4>1. Cell(p) # Cell(pos[t]) /\ Cell(p) \in Cells
        BY <1>1, <1>2, <3>2, OwnCell, CellFacts
      <4> QED
        BY <1>4, <2>1, <4>1 DEF Inv, ItemsInv
    <3> QED
      BY <3>1, <3>2
  <2>2. \A u \in Threads :
       /\ pc'[u] \in {"enq_load", "enq_seq", "enq_cas", "enq_write",
                      "enq_publish", "enq_false", "deq_publish"} => hold'[u] # NoItem
       /\ pc'[u] \in {"deq_load", "deq_seq", "deq_cas", "deq_read"} => hold'[u] = NoItem
       /\ pc'[u] = "enq_publish" => data_[Cell(pos[u])] = hold'[u]
       /\ pc'[u] = "deq_read" => data_[Cell(pos[u])] # Garbage
    BY DEF Inv, TypeOK, ItemsInv, enqPublish
  <2> QED
    BY <2>1, <2>2 DEF ItemsInv, enqPublish
<1> QED
  BY <1>6, <1>7, <1>8, <1>9, <1>10, <1>11 DEF Inv

\* The release of a cell to the next lap, which ends dequeue.
LEMMA DequeuePublishStep ==
  ASSUME Inv, NEW t \in Threads, deqPublish(t)
  PROVE  Inv'
<1> USE QueueAssumption DEF Goto, SeqAt, NextLap, mBufferMask
<1>1. Dequeuing(t) /\ Owns(t) /\ ~Owns(t)'
  BY DEF Inv, TypeOK, deqPublish, Owns, Enqueuing, Dequeuing
<1>2. pos[t] \in Nat /\ Cell(pos[t]) \in Cells /\ mDequeuePos \in Nat /\ mEnqueuePos \in Nat
  BY <1>1, OwnCell DEF Inv, TypeOK
<1>3. sequence_[Cell(pos[t])] = pos[t] + 1
  BY <1>1 DEF Inv, OwnersInv
<1>4. /\ sequence_'[Cell(pos[t])] = pos[t] + Size
      /\ \A i \in Cells : i # Cell(pos[t]) => sequence_'[i] = sequence_[i]
  BY <1>2 DEF Inv, TypeOK, deqPublish
<1>5. \A u \in Threads : u # t => /\ (Enqueuing(u)' <=> Enqueuing(u))
                                  /\ (Dequeuing(u)' <=> Dequeuing(u))
  BY DEF Inv, TypeOK, Enqueuing, Dequeuing, deqPublish
<1>6. TypeOK' /\ PositionsInv'
  BY <1>2 DEF Inv, TypeOK, PositionsInv, Labels, deqPublish
<1>7. OwnersInv'
  <2>1. \A u \in Threads : u # t /\ Owns(u) => sequence_'[Cell(pos[u])] = sequence_[Cell(pos[u])]
    BY <1>1, <1>4, OwnCell, CellFacts DEF Inv, TypeOK
  <2>2. \A u \in Threads : Owns(u)' => u # t /\ Owns(u)
    BY <1>1, <1>5 DEF Owns
  <2>3. \A u \in Threads : Enqueuing(u)' =>
          /\ mDequeuePos <= pos[u] /\ pos[u] < mEnqueuePos
          /\ sequence_'[Cell(pos[u])] = pos[u]
    BY <1>5, <2>1, <2>2 DEF Inv, OwnersInv, Owns
  <2>4. \A u \in Threads : Dequeuing(u)' =>
          /\ mEnqueuePos <= pos[u] + Size /\ pos[u] < mDequeuePos
          /\ sequence_'[Cell(pos[u])] = pos[u] + 1
    BY <1>5, <2>1, <2>2 DEF Inv, OwnersInv, Owns
  <2>5. \A u, v \in Threads : u # v /\ Owns(u)' /\ Owns(v)' => pos[u] # pos[v]
    BY <2>2 DEF Inv, OwnersInv
  <2> QED
    BY <2>3, <2>4, <2>5 DEF OwnersInv, deqPublish
<1>8. FilledInv'
  <2> SUFFICES ASSUME NEW p \in mDequeuePos .. mEnqueuePos - 1
               PROVE  \/ sequence_'[Cell(p)] = p + 1
                      \/ /\ sequence_'[Cell(p)] = p
                         /\ \E u \in Threads : Enqueuing(u)' /\ pos[u] = p
    BY DEF FilledInv, deqPublish
  <2>1. CASE p = pos[t]
    BY <1>1, <1>2, <2>1 DEF Inv, OwnersInv
  <2>2. CASE p # pos[t]
    <3>1. Cell(p) # Cell(pos[t]) /\ Cell(p) \in Cells
      BY <1>1, <1>2, <2>2, OwnCell, CellFacts
    <3>2. sequence_'[Cell(p)] = sequence_[Cell(p)]
      BY <1>4, <3>1
    <3> QED
      BY <1>5, <2>2, <3>2, <1>1 DEF Inv, FilledInv, Enqueuing, Dequeuing
  <2> QED
    BY <2>1, <2>2
<1>9. FreeInv'
  <2> SUFFICES ASSUME NEW p \in mEnqueuePos .. mDequeuePos + Size - 1
               PROVE  \/ sequence_'[Cell(p)] = p
                      \/ /\ sequence_'[Cell(p)] = p - Size + 1
                         /\ \E u \in Threads : Dequeuing(u)' /\ pos[u] = p - Size
    BY DEF FreeInv, deqPublish
  <2>1. CASE p = pos[t] + Size
    BY <1>2, <1>4, <2>1, CellFacts
  <2>2. CASE p # pos[t] + Size
    <3>1. Cell(p) # Cell(pos[t]) /\ Cell(p) \in Cells
      BY <1>1, <1>2, <2>2, OwnCell, CellFacts
    <3>2. sequence_'[Cell(p)] = sequence_[Cell(p)]
      BY <1>4, <3>1
    <3>3. ASSUME NEW u \in Threads, Dequeuing(u), pos[u] = p - Size
          PROVE  Dequeuing(u)' /\ pos[u] = p - Size
      BY <1>1, <1>2, <1>5, <2>2, <3>3 DEF Enqueuing, Dequeuing
    <3> QED
      BY <3>2, <3>3 DEF Inv, FreeInv
  <2> QED
    BY <2>1, <2>2
<1>10. CasInv'
  <2>1. ASSUME NEW u \in Threads
        PROVE  /\ pc'[u] \in {"enq_seq", "enq_cas"} => pos[u] <= mEnqueuePos
               /\ pc'[u] = "enq_cas" /\ pos[u] = mEnqueuePos => sequence_'[Cell(pos[u])] = pos[u]
               /\ pc'[u] \in {"deq_seq", "deq_cas"} => pos[u] <= mDequeuePos
               /\ pc'[u] = "deq_cas" /\ pos[u] = mDequeuePos => sequence_'[Cell(pos[u])] = pos[u] + 1
    <3>1. u # t => pc'[u] = pc[u]
      BY DEF Inv, TypeOK, deqPublish
    <3>2. pc'[t] = "idle"
      BY DEF Inv, TypeOK, deqPublish
    <3>3. pc'[u] \in {"enq_seq", "enq_cas"} => pos[u] <= mEnqueuePos
      BY <3>1, <3>2 DEF Inv, CasInv
    <3>4. pc'[u] \in {"deq_seq", "deq_cas"} => pos[u] <= mDequeuePos
      BY <3>1, <3>2 DEF Inv, CasInv
    <3>5. ASSUME pc'[u] = "enq_cas", pos[u] = mEnqueuePos
          PROVE  sequence_'[Cell(pos[u])] = pos[u]
      <4>1. sequence_[Cell(mEnqueuePos)] = mEnqueuePos
        BY <3>1, <3>2, <3>5 DEF Inv, CasInv
      <4>2. Cell(mEnqueuePos) # Cell(pos[t])
        <5>1. CASE mEnqueuePos = pos[t] + 1
          <6>1. pos[t] < mEnqueuePos /\ mEnqueuePos < pos[t] + Size
            BY <1>2, <5>1
          <6> QED
            BY <1>2, <6>1, CellFacts
        <5> QED
          BY <1>2, <1>3, <4>1, <5>1
      <4> QED
        BY <1>2, <1>4, <3>5, <4>1, <4>2, CellFacts
    <3>6. ASSUME pc'[u] = "deq_cas", pos[u] = mDequeuePos
          PROVE  sequence_'[Cell(pos[u])] = pos[u] + 1
      <4>1. sequence_[Cell(mDequeuePos)] = mDequeuePos + 1
        BY <3>1, <3>2, <3>6 DEF Inv, CasInv
      <4>2. Cell(mDequeuePos) # Cell(pos[t])
        BY <1>1, <1>2, <1>3, <4>1 DEF Inv, OwnersInv
      <4> QED
        BY <1>2, <1>4, <3>6, <4>1, <4>2, CellFacts
    <3> QED
      BY <3>3, <3>4, <3>5, <3>6
  <2> QED
    BY <2>1 DEF CasInv, deqPublish
<1>11. ItemsInv'
  <2>1. ASSUME NEW p \in mDequeuePos .. mEnqueuePos - 1, sequence_'[Cell(p)] = p + 1
        PROVE  data_[Cell(p)] # Garbage
    <3>1. CASE p = pos[t]
      BY <1>1, <1>2, <3>1 DEF Inv, OwnersInv
    <3>2. CASE p # pos[t]
      <4>1. Cell(p) # Cell(pos[t]) /\ Cell(p) \in Cells
        BY <1>1, <1>2, <3>2, OwnCell, CellFacts
      <4> QED
        BY <1>4, <2>1, <4>1 DEF Inv, ItemsInv
    <3> QED
      BY <3>1, <3>2
  <2>2. \A u \in Threads :
       /\ pc'[u] \in {"enq_load", "enq_seq", "enq_cas", "enq_write",
                      "enq_publish", "enq_false", "deq_publish"} => hold'[u] # NoItem
       /\ pc'[u] \in {"deq_load", "deq_seq", "deq_cas", "deq_read"} => hold'[u] = NoItem
       /\ pc'[u] = "enq_publish" => data_[Cell(pos[u])] = hold'[u]
       /\ pc'[u] = "deq_read" => data_[Cell(pos[u])] # Garbage
    BY DEF Inv, TypeOK, ItemsInv, deqPublish
  <2> QED
    BY <2>1, <2>2 DEF ItemsInv, deqPublish
<1> QED
  BY <1>6, <1>7, <1>8, <1>9, <1>10, <1>11 DEF Inv
-----------------------------------------------------------------------------
\* Every step of every thread preserves the invariant.
LEMMA NextInv == Inv /\ [Next]_vars => Inv'
<1> SUFFICES ASSUME Inv, [Next]_vars PROVE Inv'
  OBVIOUS
<1>1. ASSUME NEW t \in Threads, Step(t) PROVE Inv'
  BY <1>1, EnqueueLocalStep, DequeueLocalStep, EnqueueCasStep, DequeueCasStep,
     EnqueueWriteStep, EnqueuePublishStep, DequeuePublishStep DEF Step
<1>2. CASE UNCHANGED vars
  BY <1>2 DEF vars, shared, Inv, TypeOK, PositionsInv, OwnersInv, FilledInv,
     FreeInv, CasInv, ItemsInv, Owns, Enqueuing, Dequeuing, SeqAt
<1> QED
  BY <1>1, <1>2 DEF Next

\* The invariant holds in every reachable state of the queue: whatever enqueue
\* and dequeue do at the same time, a CAS that succeeds finds its cell as the
\* thread has read it.
THEOREM QueueInvariant == Spec => []Inv
  BY InitInv, NextInv, PTL DEF Spec

\* The types, and with them: dequeue never returns what was in a cell that
\* enqueue has not written.
THEOREM QueueTypes == Spec => []TypeOK
<1>1. Inv => TypeOK
  BY DEF Inv
<1> QED
  BY <1>1, QueueInvariant, PTL

\* No data race on data_: for any number of threads and cells, two threads
\* never write or read the data of one cell at the same time.
THEOREM QueueCellExclusive == Spec => []CellExclusive
  BY InvImpliesCellExclusive, QueueInvariant, PTL
-----------------------------------------------------------------------------
(***************************************************************************)
(* The queue implements FIFO.                                              *)
(***************************************************************************)
\* What is at a position of the queue.
ItemsOK ==
  \A p \in mDequeuePos .. mEnqueuePos - 1 :
    /\ ItemAt(p) \in Items
    /\ \A t \in Threads : pc[t] = "enq_write" /\ pos[t] = p => ItemAt(p) = hold[t]
    /\ (\A t \in Threads : ~(pc[t] = "enq_write" /\ pos[t] = p)) => ItemAt(p) = data_[Cell(p)]

\* At a position of the queue there is an item: the one that its enqueue is about
\* to write, or the one in its cell.
LEMMA ItemAtFacts == Inv => ItemsOK
<1> SUFFICES ASSUME Inv, NEW p \in mDequeuePos .. mEnqueuePos - 1
             PROVE  /\ ItemAt(p) \in Items
                    /\ \A t \in Threads : pc[t] = "enq_write" /\ pos[t] = p => ItemAt(p) = hold[t]
                    /\ (\A t \in Threads : ~(pc[t] = "enq_write" /\ pos[t] = p))
                         => ItemAt(p) = data_[Cell(p)]
  BY DEF ItemsOK
<1>1. CASE \E t \in Threads : pc[t] = "enq_write" /\ pos[t] = p
  <2>1. PICK t \in Threads : pc[t] = "enq_write" /\ pos[t] = p
    BY <1>1
  <2>2. \A u \in Threads : pc[u] = "enq_write" /\ pos[u] = p => u = t
    BY <2>1 DEF Inv, OwnersInv, Owns, Enqueuing
  <2>3. (CHOOSE u \in Threads : pc[u] = "enq_write" /\ pos[u] = p) = t
    BY <2>1, <2>2
  <2>4. ItemAt(p) = hold[t]
    BY <1>1, <2>3 DEF ItemAt
  <2> QED
    BY <2>1, <2>2, <2>4 DEF Inv, TypeOK, ItemsInv
<1>2. CASE ~\E t \in Threads : pc[t] = "enq_write" /\ pos[t] = p
  <2>1. ItemAt(p) = data_[Cell(p)]
    BY <1>2 DEF ItemAt
  <2>2. p \in Nat /\ Cell(p) \in Cells /\ data_[Cell(p)] \in Items \cup {Garbage}
    BY CellFacts DEF Inv, TypeOK
  <2>3. CASE sequence_[Cell(p)] = p + 1
    BY <1>2, <2>1, <2>2, <2>3 DEF Inv, ItemsInv
  <2>4. CASE \E t \in Threads : Enqueuing(t) /\ pos[t] = p
    <3>1. PICK t \in Threads : Enqueuing(t) /\ pos[t] = p
      BY <2>4
    <3>2. pc[t] = "enq_publish"
      BY <1>2, <3>1 DEF Enqueuing
    <3>3. data_[Cell(p)] = hold[t] /\ hold[t] \in Items
      BY <3>1, <3>2 DEF Inv, TypeOK, ItemsInv
    <3> QED
      BY <1>2, <2>1, <3>3
  <2> QED
    BY <2>3, <2>4 DEF Inv, FilledInv
<1> QED
  BY <1>1, <1>2

\* The refinement mapping is a sequence of the items at the positions.
ContentsOK ==
  /\ Contents \in Seq(Items)
  /\ Len(Contents) = mEnqueuePos - mDequeuePos
  /\ \A j \in 1 .. mEnqueuePos - mDequeuePos : Contents[j] = ItemAt(mDequeuePos + j - 1)

LEMMA ContentsFacts == Inv => ContentsOK
<1> SUFFICES ASSUME Inv PROVE ContentsOK
  OBVIOUS
<1> DEFINE n == mEnqueuePos - mDequeuePos
<1>1. mEnqueuePos \in Nat /\ mDequeuePos \in Nat /\ n \in Nat
  BY DEF Inv, TypeOK, PositionsInv
<1>2. \A j \in 1 .. n : mDequeuePos + j - 1 \in mDequeuePos .. mEnqueuePos - 1
  BY <1>1
<1>3. \A j \in 1 .. n : ItemAt(mDequeuePos + j - 1) \in Items
  BY <1>2, ItemAtFacts DEF ItemsOK
<1>4. Contents \in [1 .. n -> Items]
  BY <1>3 DEF Contents
<1>5. Contents \in Seq(Items) /\ Len(Contents) = n
  BY <1>1, <1>4
<1> QED
  BY <1>5 DEF Contents, ContentsOK

\* Nothing changes at a position that no thread is about to write to or has
\* just written to.
LEMMA ItemAtSame ==
  ASSUME Inv, Inv', NEW p \in mDequeuePos .. mEnqueuePos - 1,
         p \in mDequeuePos' .. mEnqueuePos' - 1,
         \A u \in Threads : pc'[u] = "enq_write" /\ pos'[u] = p
                              <=> pc[u] = "enq_write" /\ pos[u] = p,
         \A u \in Threads : pc[u] = "enq_write" => hold'[u] = hold[u],
         data_'[Cell(p)] = data_[Cell(p)]
  PROVE  ItemAt(p)' = ItemAt(p)
<1>1. ItemsOK /\ ItemsOK'
  BY ItemAtFacts, PTL
<1>2. CASE \E t \in Threads : pc[t] = "enq_write" /\ pos[t] = p
  <2>1. PICK t \in Threads : pc[t] = "enq_write" /\ pos[t] = p
    BY <1>2
  <2>2. ItemAt(p) = hold[t]
    BY <1>1, <2>1 DEF ItemsOK
  <2>3. ItemAt(p)' = hold'[t]
    BY <1>1, <2>1 DEF ItemsOK
  <2> QED
    BY <2>1, <2>2, <2>3
<1>3. CASE ~\E t \in Threads : pc[t] = "enq_write" /\ pos[t] = p
  <2>1. ItemAt(p) = data_[Cell(p)]
    BY <1>3 DEF ItemAt
  <2>2. ~\E t \in Threads : pc'[t] = "enq_write" /\ pos'[t] = p
    BY <1>3
  <2>3. ItemAt(p)' = data_'[Cell(p)]
    BY <2>2 DEF ItemAt, Cell
  <2> QED
    BY <2>1, <2>3
<1> QED
  BY <1>2, <1>3

\* A step that is none of FIFO.
Stutter == /\ Contents' = Contents
           /\ [u \in Threads |-> Held(u)]' = [u \in Threads |-> Held(u)]

LEMMA Stutters ==
  ASSUME mEnqueuePos' = mEnqueuePos, mDequeuePos' = mDequeuePos,
         mEnqueuePos \in Nat, mDequeuePos \in Nat,
         \A p \in mDequeuePos .. mEnqueuePos - 1 : ItemAt(p)' = ItemAt(p),
         \A u \in Threads : Held(u)' = Held(u)
  PROVE  Stutter
<1>1. \A j \in 1 .. mEnqueuePos - mDequeuePos :
        mDequeuePos + j - 1 \in mDequeuePos .. mEnqueuePos - 1
  OBVIOUS
<1>2. \A j \in 1 .. mEnqueuePos - mDequeuePos :
        ItemAt(mDequeuePos + j - 1)' = ItemAt(mDequeuePos + j - 1)
  <2> SUFFICES ASSUME NEW j \in 1 .. mEnqueuePos - mDequeuePos
               PROVE  ItemAt(mDequeuePos + j - 1)' = ItemAt(mDequeuePos + j - 1)
    OBVIOUS
  <2>1. PICK p \in mDequeuePos .. mEnqueuePos - 1 : p = mDequeuePos + j - 1
    BY <1>1
  <2>2. p = mDequeuePos' + j - 1
    BY <2>1
  <2>3. ItemAt(p)' = ItemAt(p)
    OBVIOUS
  <2>4. ItemAt(mDequeuePos + j - 1)' = ItemAt(p)'
    BY <2>2 DEF ItemAt, Cell
  <2> QED
    BY <2>1, <2>3, <2>4
<1>3. Contents' = Contents
  BY <1>2 DEF Contents
<1> QED
  BY <1>3 DEF Stutter

\* Loads, reads of a sequence number, a CAS that fails, false returned, and the
\* sequence number that ends a dequeue.
LEMMA QuietStutters ==
  ASSUME Inv, Inv', NEW t \in Threads,
         mEnqueuePos' = mEnqueuePos, mDequeuePos' = mDequeuePos, data_' = data_, hold' = hold,
         pc[t] \notin {"enq_write", "enq_publish", "deq_read"},
         pc'[t] \notin {"enq_write", "enq_publish", "deq_read"},
         \A u \in Threads \ {t} : pc'[u] = pc[u] /\ pos'[u] = pos[u]
  PROVE  Stutter
<1>1. \A p \in mDequeuePos .. mEnqueuePos - 1 : ItemAt(p)' = ItemAt(p)
  BY ItemAtSame
<1>2. \A u \in Threads : Held(u)' = Held(u)
  BY DEF Held, Enqueuing, Cell
<1> QED
  BY <1>1, <1>2, Stutters DEF Inv, TypeOK

LEMMA LocalStutters ==
  ASSUME Inv, Inv', NEW t \in Threads,
         \/ enqLoad(t) \/ enqSeq(t) \/ enqFalse(t) \/ deqLoad(t) \/ deqSeq(t) \/ deqPublish(t)
         \/ enqCas(t) /\ mEnqueuePos' = mEnqueuePos
         \/ deqCas(t) /\ mDequeuePos' = mDequeuePos
  PROVE  Stutter
<1>1. /\ mEnqueuePos' = mEnqueuePos /\ mDequeuePos' = mDequeuePos
      /\ data_' = data_ /\ hold' = hold
  BY DEF enqLoad, enqSeq, enqFalse, deqLoad, deqSeq, deqPublish, enqCas, deqCas, shared
<1>2. /\ pc[t] \notin {"enq_write", "enq_publish", "deq_read"}
      /\ pc'[t] \notin {"enq_write", "enq_publish", "deq_read"}
      /\ \A u \in Threads \ {t} : pc'[u] = pc[u] /\ pos'[u] = pos[u]
  BY DEF Inv, TypeOK, enqLoad, enqSeq, enqFalse, deqLoad, deqSeq, deqPublish, enqCas, deqCas,
     Goto
<1> QED
  BY <1>1, <1>2, QuietStutters

\* The item is written: it is where it was as far as FIFO can tell.
LEMMA WriteStutters ==
  ASSUME Inv, Inv', NEW t \in Threads, enqWrite(t)
  PROVE  Stutter
<1>1. /\ pc[t] = "enq_write" /\ pc'[t] = "enq_publish" /\ pos' = pos /\ hold' = hold
      /\ mEnqueuePos' = mEnqueuePos /\ mDequeuePos' = mDequeuePos
      /\ \A u \in Threads \ {t} : pc'[u] = pc[u]
      /\ data_' = [data_ EXCEPT ![Cell(pos[t])] = hold[t]]
  BY DEF enqWrite, Goto, Inv, TypeOK
<1>2. Owns(t) /\ Cell(pos[t]) \in Cells
  BY <1>1, OwnCell DEF Owns, Enqueuing
<1>3. ItemsOK /\ ItemsOK'
  BY ItemAtFacts, PTL
<1>4. ASSUME NEW p \in mDequeuePos .. mEnqueuePos - 1 PROVE ItemAt(p)' = ItemAt(p)
  <2>1. CASE p = pos[t]
    <3>1. ItemAt(p) = hold[t]
      BY <1>1, <1>3, <2>1 DEF ItemsOK
    <3>2. \A u \in Threads : ~(pc'[u] = "enq_write" /\ pos'[u] = p)
      BY <1>1, <1>2, <2>1 DEF Inv, OwnersInv, Owns, Enqueuing
    <3>3. ItemAt(p)' = data_'[Cell(p)]
      BY <3>2 DEF ItemAt, Cell
    <3> QED
      BY <1>1, <1>2, <2>1, <3>1, <3>3 DEF Inv, TypeOK
  <2>2. CASE p # pos[t]
    <3>1. Cell(p) # Cell(pos[t])
      BY <1>2, <2>2, OwnCell
    <3>2. data_'[Cell(p)] = data_[Cell(p)]
      BY <1>1, <3>1, CellFacts DEF Inv, TypeOK
    <3> QED
      BY <1>1, <2>2, <3>2, ItemAtSame
  <2> QED
    BY <2>1, <2>2
<1>5. ASSUME NEW u \in Threads PROVE Held(u)' = Held(u)
  <2>1. CASE u = t
    BY <1>1, <2>1 DEF Held, Enqueuing
  <2>2. CASE u # t /\ pc[u] = "deq_read"
    <3>1. Cell(pos[u]) # Cell(pos[t]) /\ Cell(pos[u]) \in Cells
      BY <1>2, <2>2, OwnCell, CellFacts DEF Owns, Dequeuing, Inv, TypeOK
    <3>2. data_'[Cell(pos[u])] = data_[Cell(pos[u])]
      BY <1>1, <3>1 DEF Inv, TypeOK
    <3> QED
      BY <1>1, <2>2, <3>2 DEF Held, Enqueuing, Cell
  <2>3. CASE u # t /\ pc[u] # "deq_read"
    BY <1>1, <2>3 DEF Held, Enqueuing
  <2> QED
    BY <2>1, <2>2, <2>3
<1> QED
  BY <1>1, <1>4, <1>5, Stutters DEF Inv, TypeOK

\* The cell is opened to dequeue.
LEMMA PublishStutters ==
  ASSUME Inv, Inv', NEW t \in Threads, enqPublish(t)
  PROVE  Stutter
<1>1. /\ pc[t] = "enq_publish" /\ pc'[t] = "idle" /\ pos' = pos /\ data_' = data_
      /\ mEnqueuePos' = mEnqueuePos /\ mDequeuePos' = mDequeuePos
      /\ hold'[t] = NoItem
      /\ \A u \in Threads \ {t} : pc'[u] = pc[u] /\ hold'[u] = hold[u]
  BY DEF enqPublish, Goto, Inv, TypeOK
<1>2. \A p \in mDequeuePos .. mEnqueuePos - 1 : ItemAt(p)' = ItemAt(p)
  BY <1>1, ItemAtSame
<1>3. \A u \in Threads : Held(u)' = Held(u)
  BY <1>1 DEF Held, Enqueuing, Cell
<1> QED
  BY <1>1, <1>2, <1>3, Stutters DEF Inv, TypeOK

\* The item is read: its client has had it since the CAS.
LEMMA ReadStutters ==
  ASSUME Inv, Inv', NEW t \in Threads, deqRead(t)
  PROVE  Stutter
<1>1. /\ pc[t] = "deq_read" /\ pc'[t] = "deq_publish" /\ pos' = pos /\ data_' = data_
      /\ mEnqueuePos' = mEnqueuePos /\ mDequeuePos' = mDequeuePos
      /\ hold'[t] = data_[Cell(pos[t])]
      /\ \A u \in Threads \ {t} : pc'[u] = pc[u] /\ hold'[u] = hold[u]
  BY DEF deqRead, shared, Goto, Inv, TypeOK
<1>2. \A p \in mDequeuePos .. mEnqueuePos - 1 : ItemAt(p)' = ItemAt(p)
  BY <1>1, ItemAtSame
<1>3. \A u \in Threads : Held(u)' = Held(u)
  BY <1>1 DEF Held, Enqueuing, Cell
<1> QED
  BY <1>1, <1>2, <1>3, Stutters DEF Inv, TypeOK

\* The CAS of enqueue that succeeds puts the item at the end of the queue.
LEMMA CasPuts ==
  ASSUME Inv, Inv', NEW t \in Threads, enqCas(t), mEnqueuePos' # mEnqueuePos
  PROVE  Atomic!Put(t)
<1>1. /\ pc[t] = "enq_cas" /\ pc'[t] = "enq_write" /\ mEnqueuePos = pos[t] /\ pos' = pos
      /\ mEnqueuePos' = mEnqueuePos + 1 /\ mDequeuePos' = mDequeuePos
      /\ data_' = data_ /\ hold' = hold
      /\ \A u \in Threads \ {t} : pc'[u] = pc[u]
  BY DEF enqCas, Goto, Inv, TypeOK
<1>2. ContentsOK /\ ContentsOK' /\ ItemsOK'
  BY ContentsFacts, ItemAtFacts, PTL
<1> DEFINE n == mEnqueuePos - mDequeuePos
<1>3. mEnqueuePos \in Nat /\ mDequeuePos \in Nat /\ n \in Nat /\ n < Size
  BY <1>1, QueueAssumption DEF Inv, TypeOK, PositionsInv
<1>4. hold[t] \in Items /\ hold[t] # NoItem /\ Held(t) = hold[t]
  BY <1>1 DEF Inv, TypeOK, ItemsInv, Held, Enqueuing
<1>5. \A p \in mDequeuePos .. mEnqueuePos - 1 : ItemAt(p)' = ItemAt(p)
  <2> SUFFICES ASSUME NEW p \in mDequeuePos .. mEnqueuePos - 1 PROVE ItemAt(p)' = ItemAt(p)
    OBVIOUS
  <2>1. p # pos[t] /\ p \in mDequeuePos' .. mEnqueuePos' - 1
    BY <1>1, <1>3
  <2> QED
    BY <1>1, <2>1, ItemAtSame
<1>6. \A p : p = mEnqueuePos => ItemAt(p)' = hold[t]
  <2> SUFFICES ASSUME NEW p, p = mEnqueuePos PROVE ItemAt(p)' = hold[t]
    OBVIOUS
  <2>1. p \in mDequeuePos' .. mEnqueuePos' - 1
    BY <1>1, <1>3 DEF Inv, PositionsInv
  <2> QED
    BY <1>1, <1>2, <2>1 DEF ItemsOK
<1>7. Len(Contents) = n /\ Len(Contents') = n + 1
      /\ Contents \in Seq(Items) /\ Contents' \in Seq(Items)
  BY <1>1, <1>2, <1>3 DEF ContentsOK
<1>8. ASSUME NEW j \in 1 .. n + 1
      PROVE  Contents'[j] = IF j = n + 1 THEN hold[t] ELSE Contents[j]
  <2>1. PICK p \in Nat : p = mDequeuePos + j - 1
    BY <1>3
  <2>2. p = mDequeuePos' + j - 1 /\ j \in 1 .. mEnqueuePos' - mDequeuePos'
    BY <1>1, <1>3, <2>1
  <2>3. Contents'[j] = ItemAt(mDequeuePos + j - 1)'
    BY <1>2, <2>2 DEF ContentsOK
  <2>4. ItemAt(mDequeuePos + j - 1)' = ItemAt(p)'
    BY <2>2 DEF ItemAt, Cell
  <2>5. CASE j = n + 1
    BY <1>3, <1>6, <2>1, <2>3, <2>4, <2>5
  <2>6. CASE j \in 1 .. n
    <3>1. p \in mDequeuePos .. mEnqueuePos - 1 /\ Contents[j] = ItemAt(p)
      BY <1>2, <1>3, <2>1, <2>6 DEF ContentsOK
    <3> QED
      BY <1>3, <1>5, <2>3, <2>4, <2>6, <3>1
  <2> QED
    BY <1>3, <2>5, <2>6
<1>9. Contents' = Append(Contents, hold[t])
  <2>1. /\ Append(Contents, hold[t]) \in Seq(Items)
        /\ Len(Append(Contents, hold[t])) = n + 1
        /\ \A j \in 1 .. n : Append(Contents, hold[t])[j] = Contents[j]
        /\ Append(Contents, hold[t])[n + 1] = hold[t]
    BY <1>4, <1>7, AppendProperties
  <2>2. \A j \in 1 .. Len(Contents') : Contents'[j] = Append(Contents, hold[t])[j]
    BY <1>3, <1>7, <1>8, <2>1
  <2> QED
    BY <1>7, <2>1, <2>2, SeqEqual
<1>10. [u \in Threads |-> Held(u)]' = [[u \in Threads |-> Held(u)] EXCEPT ![t] = NoItem]
  BY <1>1 DEF Held, Enqueuing, Cell
<1> QED
  BY <1>3, <1>4, <1>7, <1>9, <1>10 DEF Atomic!Put

\* The CAS of dequeue that succeeds takes the first item of the queue.
LEMMA CasTakes ==
  ASSUME Inv, Inv', NEW t \in Threads, deqCas(t), mDequeuePos' # mDequeuePos
  PROVE  Atomic!Take(t)
<1>1. /\ pc[t] = "deq_cas" /\ pc'[t] = "deq_read" /\ mDequeuePos = pos[t] /\ pos' = pos
      /\ mDequeuePos' = mDequeuePos + 1 /\ mEnqueuePos' = mEnqueuePos
      /\ data_' = data_ /\ hold' = hold
      /\ \A u \in Threads \ {t} : pc'[u] = pc[u]
  BY DEF deqCas, Goto, Inv, TypeOK
<1>2. ContentsOK /\ ContentsOK'
  BY ContentsFacts, PTL
<1> DEFINE n == mEnqueuePos - mDequeuePos
<1>3. mEnqueuePos \in Nat /\ mDequeuePos \in Nat /\ n \in Nat \ {0}
  BY <1>1 DEF Inv, TypeOK, PositionsInv
<1>4. Held(t) = NoItem
  BY <1>1 DEF Inv, ItemsInv, Held, Enqueuing
<1>5. \A p \in mDequeuePos' .. mEnqueuePos' - 1 : ItemAt(p)' = ItemAt(p)
  BY <1>1, <1>3, ItemAtSame
<1>6. ItemAt(mDequeuePos) = data_[Cell(pos[t])]
  <2>1. sequence_[Cell(pos[t])] = pos[t] + 1
    BY <1>1 DEF Inv, CasInv, SeqAt
  <2>2. \A u \in Threads : ~(pc[u] = "enq_write" /\ pos[u] = mDequeuePos)
    BY <1>1, <1>3, <2>1 DEF Inv, OwnersInv, Enqueuing, SeqAt
  <2> QED
    BY <1>1, <2>2 DEF ItemAt
<1>7. /\ Len(Contents) = n /\ Len(Contents') = n - 1
      /\ Contents \in Seq(Items) /\ Contents' \in Seq(Items) /\ Contents # <<>>
  BY <1>1, <1>2, <1>3 DEF ContentsOK
<1>8. Head(Contents) = data_[Cell(pos[t])]
  <2>1. Contents[1] = ItemAt(mDequeuePos + 1 - 1)
    BY <1>2, <1>3 DEF ContentsOK
  <2>2. mDequeuePos + 1 - 1 = mDequeuePos
    BY <1>3
  <2> QED
    BY <1>6, <1>7, <2>1, <2>2
<1>9. ASSUME NEW j \in 1 .. n - 1 PROVE Contents'[j] = Contents[j + 1]
  <2>1. PICK p \in Nat : p = mDequeuePos + j
    BY <1>3
  <2>2. /\ p = mDequeuePos' + j - 1 /\ j \in 1 .. mEnqueuePos' - mDequeuePos'
        /\ p = mDequeuePos + (j + 1) - 1 /\ j + 1 \in 1 .. n
        /\ p \in mDequeuePos' .. mEnqueuePos' - 1
    BY <1>1, <1>3, <2>1
  <2>3. Contents'[j] = ItemAt(mDequeuePos + j - 1)'
    BY <1>2, <2>2 DEF ContentsOK
  <2>4. ItemAt(mDequeuePos + j - 1)' = ItemAt(p)'
    BY <2>2 DEF ItemAt, Cell
  <2>5. Contents[j + 1] = ItemAt(p)
    BY <1>2, <2>2 DEF ContentsOK
  <2> QED
    BY <1>5, <2>2, <2>3, <2>4, <2>5
<1>10. Contents' = Tail(Contents)
  <2>1. /\ Tail(Contents) \in Seq(Items) /\ Len(Tail(Contents)) = n - 1
        /\ \A j \in 1 .. n - 1 : Tail(Contents)[j] = Contents[j + 1]
    BY <1>3, <1>7, HeadTailProperties
  <2> QED
    BY <1>7, <1>9, <2>1, SeqEqual
<1>11. [u \in Threads |-> Held(u)]'
         = [[u \in Threads |-> Held(u)] EXCEPT ![t] = Head(Contents)]
  BY <1>1, <1>8 DEF Held, Enqueuing, Cell
<1> QED
  BY <1>4, <1>7, <1>10, <1>11 DEF Atomic!Take

LEMMA InitRefines == Init => Atomic!Init
<1> SUFFICES ASSUME Init PROVE Atomic!Init
  OBVIOUS
<1>1. Inv /\ ContentsOK
  BY InitInv, ContentsFacts
<1>2. Len(InitialItems) \in Nat /\ Len(InitialItems) <= Size /\ InitialItems \in Seq(Items)
  BY QueueAssumption
<1>3. Contents \in Seq(Items) /\ Len(Contents) = Len(InitialItems)
  BY <1>1, <1>2 DEF Init, ContentsOK
<1>4. ASSUME NEW j \in 1 .. Len(InitialItems) PROVE Contents[j] = InitialItems[j]
  <2>1. Contents[j] = ItemAt(0 + j - 1)
    BY <1>1, <1>2 DEF Init, ContentsOK
  <2>2. j - 1 \in Cells /\ Cell(j - 1) = j - 1 /\ 0 + j - 1 = j - 1
    BY <1>2, QueueAssumption DEF Cells, Cell
  <2>3. ItemAt(j - 1) = data_[j - 1]
    BY <2>2 DEF Init, ItemAt
  <2> QED
    BY <1>2, <2>1, <2>2, <2>3 DEF Init
<1>5. Contents = InitialItems
  BY <1>2, <1>3, <1>4, SeqEqual
<1>6. [t \in Threads |-> Held(t)] = [t \in Threads |-> NoItem]
  BY DEF Init, Held, Enqueuing
<1> QED
  BY <1>5, <1>6 DEF Atomic!Init

LEMMA NextRefines ==
  Inv /\ Inv' /\ [Next]_vars => [Atomic!Next]_<<Contents, [t \in Threads |-> Held(t)]>>
<1> SUFFICES ASSUME Inv, Inv', [Next]_vars
             PROVE  Stutter \/ Atomic!Next
  BY DEF Stutter
<1>1. CASE UNCHANGED vars
  <2>1. \A p \in mDequeuePos .. mEnqueuePos - 1 : ItemAt(p)' = ItemAt(p)
    BY <1>1 DEF vars, shared, ItemAt, Cell
  <2>2. \A u \in Threads : Held(u)' = Held(u)
    BY <1>1 DEF vars, shared, Held, Enqueuing, Cell
  <2> QED
    BY <1>1, <2>1, <2>2, Stutters DEF vars, shared, Inv, TypeOK
<1>2. ASSUME NEW t \in Threads, Step(t) PROVE Stutter \/ Atomic!Next
  BY <1>2, LocalStutters, WriteStutters, PublishStutters, ReadStutters, CasPuts, CasTakes
     DEF Step, Atomic!Next
<1> QED
  BY <1>1, <1>2 DEF Next

\* The lock-free queue is an atomic bounded first-in first-out queue, for any
\* number of threads, items and cells: enqueue and dequeue take effect with the
\* CAS that succeeds, and no item is lost, doubled or overtaken.
THEOREM QueueRefinement == Spec => ImplementsFIFO
<1>1. Inv /\ Inv' /\ [Next]_vars => [Atomic!Next]_<<Contents, [t \in Threads |-> Held(t)]>>
  BY NextRefines
<1> QED
  BY <1>1, InitRefines, QueueInvariant, PTL DEF Spec, ImplementsFIFO, Atomic!Spec
==============================================================================
