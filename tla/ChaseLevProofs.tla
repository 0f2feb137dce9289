---------------------------- MODULE ChaseLevProofs ----------------------------
(***************************************************************************)
(* The work-stealing deque, for any number of stealers, items and sizes.   *)
(* First what waits in the store buffers; then the reclaimer, to which only*)
(* the ids of the buffers matter; then the items: where they are while the *)
(* owner and the thieves work, that a thief finds the one it has won, and  *)
(* that the deque implements the atomic one.                               *)
(***************************************************************************)
EXTENDS ChaseLev, SequenceTheorems, TLAPS

\* Labels at which a stealer has said that it is not idle.
Working == {"steal_top", "steal_bottom", "steal_buffer", "steal_cas", "steal_get", "steal_end"}

StealerLabels == Working \cup {"unregistered", "idle", "steal_last", "steal_id"}

ReclaimLabels == {"push_reclaim", "pop_reclaim", "push_id", "pop_id"}

\* The buffers are a sequence, of whatever they hold.
BuffersOK == \E S : buffers \in Seq(S)

Listed(s, list) == \E i \in DOMAIN list : list[i] = s

\* What waits in the store buffers: the states that the owner and the stealers
\* have stored, of which the others see the oldest.
OwnerState == [bottom : Int, buffer : Nat]
StealerState == [was_idle : BOOLEAN, id_last_used : Nat]

StoresInv ==
  /\ BuffersOK /\ Len(buffers) >= 1
  /\ bottom \in Int /\ a \in [Stealers -> Nat] /\ DOMAIN stores = Actors
  /\ stores[Owner] \in Seq(OwnerState) /\ Len(stores[Owner]) >= 1
  /\ Latest(Owner).bottom = bottom
  /\ \A i \in 1 .. Len(stores[Owner]) : stores[Owner][i].buffer <= buffer
  /\ \A s \in Stealers : stores[s] \in Seq(StealerState) /\ Len(stores[s]) >= 1

TypeInv ==
  /\ unlinked \in Nat \cup {Null}
  /\ id_list \in Seq(Stealers) /\ head \in Seq(Stealers) /\ min_id \in Nat
  /\ DOMAIN pc = Actors /\ \A s \in Stealers : pc[s] \in StealerLabels
  /\ outdated \in [Stealers -> BOOLEAN] /\ misread \in BOOLEAN

\* Labels behind the fence of steal.
Behind == {"steal_buffer", "steal_cas", "steal_get"}

\* The flag and the list that the owner reads show where a stealer is, the flag
\* from the fence on.
FlagInv == \A s \in Stealers :
  /\ Latest(s).was_idle <=> pc[s] \notin Working
  /\ pc[s] \in Behind => Fenced(s)
  /\ pc[s] # "unregistered" => Listed(s, id_list)

\* Only buffers that are no longer linked are deleted, and reclaim_buffers is
\* called only if there is one.
UnlinkedInv ==
  /\ unlinked = Null => Len(buffers) = 1
  /\ unlinked # Null => unlinked <= buffer
  /\ pc[Owner] \in ReclaimLabels => unlinked # Null /\ min_id <= buffer
  /\ pc[Owner] \in {"push_id", "pop_id"} => head # <<>>

BasicInv == TypeInv /\ FlagInv /\ UnlinkedInv

\* The thief has loaded the buffer that the owner had stored last.
Current(s) == Stealing(s) /\ ~outdated[s]

\* An id that a stealer has noted is never newer than the buffer it works on.
IdInv == \A s \in Stealers :
  /\ \A i \in 1 .. Len(stores[s]) : stores[s][i].id_last_used <= buffer
  /\ pc[s] = "steal_id" => a[s] <= buffer
  /\ Current(s) => Seen(s).id_last_used <= a[s] /\ ~Deleted(a[s])

\* What reclaim_buffers has found out so far: whoever it has looked at keeps a
\* buffer that will not be deleted.
ScanInv == pc[Owner] \in ReclaimLabels =>
  \A s \in Stealers : Current(s) => Listed(s, head) \/ min_id <= a[s]

ReclaimInv == BasicInv /\ (misread \/ (IdInv /\ ScanInv))
-----------------------------------------------------------------------------
LEMMA MinOfTwo ==
  ASSUME NEW x \in Nat, NEW y \in Nat
  PROVE  Min({x, y}) \in {x, y} /\ Min({x, y}) <= x /\ Min({x, y}) <= y
<1>1. \E z \in {x, y} : \A w \in {x, y} : z <= w
  OBVIOUS
<1> QED
  BY <1>1 DEF Min

LEMMA MaxOfTwo ==
  ASSUME NEW x \in Nat, NEW y \in Nat
  PROVE  Max({x, y}) \in {x, y} /\ Max({x, y}) >= x /\ Max({x, y}) >= y
<1>1. \E z \in {x, y} : \A w \in {x, y} : z >= w
  OBVIOUS
<1> QED
  BY <1>1 DEF Max

LEMMA TailListed ==
  ASSUME NEW S, NEW list \in Seq(S), list # <<>>, NEW s
  PROVE  /\ Tail(list) \in Seq(S) /\ Head(list) \in S
         /\ Listed(s, list) => s = Head(list) \/ Listed(s, Tail(list))
<1>1. \A i \in DOMAIN list : i = 1 \/ (i - 1 \in DOMAIN Tail(list) /\ Tail(list)[i - 1] = list[i])
  OBVIOUS
<1>2. Head(list) = list[1]
  OBVIOUS
<1>3. Tail(list) \in Seq(S) /\ list[1] \in S
  OBVIOUS
<1>4. ASSUME NEW i \in DOMAIN list, list[i] = s PROVE s = Head(list) \/ Listed(s, Tail(list))
  BY <1>1, <1>2, <1>4 DEF Listed
<1> QED
  BY <1>2, <1>3, <1>4 DEF Listed

\* A buffer is added, or the segment of one is written.
LEMMA BufferAdded ==
  ASSUME BuffersOK, NEW new, buffers' = Append(buffers, new)
  PROVE  BuffersOK' /\ Len(buffers) \in Nat /\ Len(buffers') = Len(buffers) + 1
<1>1. PICK S : buffers \in Seq(S)
  BY DEF BuffersOK
<1>2. buffers \in Seq(S \cup {new})
  BY <1>1
<1> QED
  BY <1>2 DEF BuffersOK

LEMMA BufferWritten ==
  ASSUME BuffersOK, NEW i, NEW new, buffers' = [buffers EXCEPT ![i] = new]
  PROVE  BuffersOK' /\ Len(buffers) \in Nat /\ Len(buffers') = Len(buffers)
<1>1. PICK S : buffers \in Seq(S)
  BY DEF BuffersOK
<1>2. buffers \in Seq(S \cup {new})
  BY <1>1
<1>3. buffers \in [1 .. Len(buffers) -> S \cup {new}] /\ Len(buffers) \in Nat
  BY <1>2
<1>4. buffers' \in [1 .. Len(buffers) -> S \cup {new}]
  BY <1>3
<1>5. buffers' \in Seq(S \cup {new}) /\ Len(buffers') = Len(buffers)
  BY <1>3, <1>4, LenProperties
<1> QED
  BY <1>1, <1>3, <1>5 DEF BuffersOK

LEMMA LenNat == BuffersOK => Len(buffers) \in Nat
<1> SUFFICES ASSUME BuffersOK PROVE Len(buffers) \in Nat
  OBVIOUS
<1>1. PICK S : buffers \in Seq(S)
  BY DEF BuffersOK
<1> QED
  BY <1>1

-----------------------------------------------------------------------------
(***************************************************************************)
(* The store buffers.                                                      *)
(***************************************************************************)
LEMMA StoreFacts ==
  ASSUME DOMAIN stores = Actors, NEW x \in Actors, NEW S, stores[x] \in Seq(S), NEW r \in S, Store(x, r)
  PROVE  /\ DOMAIN stores' = Actors /\ \A y \in Actors \ {x} : stores'[y] = stores[y]
         /\ stores'[x] \in Seq(S) /\ Len(stores'[x]) = Len(stores[x]) + 1
         /\ Latest(x)' = r /\ stores'[x][Len(stores[x]) + 1] = r
         /\ \A i \in 1 .. Len(stores[x]) : stores'[x][i] = stores[x][i]
<1>1. stores'[x] = Append(stores[x], r)
  BY DEF Store
<1>2. /\ stores'[x] \in Seq(S) /\ Len(stores'[x]) = Len(stores[x]) + 1
      /\ stores'[x][Len(stores[x]) + 1] = r
      /\ \A i \in 1 .. Len(stores[x]) : stores'[x][i] = stores[x][i]
  BY <1>1
<1> QED
  BY <1>2 DEF Store, Latest

LEMMA DrainFacts ==
  ASSUME DOMAIN stores = Actors, NEW x \in Actors, NEW S, stores[x] \in Seq(S), Len(stores[x]) >= 1, drain(x)
  PROVE  /\ DOMAIN stores' = Actors /\ \A y \in Actors \ {x} : stores'[y] = stores[y]
         /\ stores'[x] \in Seq(S) /\ Len(stores'[x]) = Len(stores[x]) - 1
         /\ Len(stores'[x]) >= 1 /\ Latest(x)' = Latest(x)
         /\ \A i \in 1 .. Len(stores'[x]) : stores'[x][i] = stores[x][i + 1]
<1>1. stores'[x] = Tail(stores[x]) /\ Len(stores[x]) # 1
  BY DEF drain, Fenced
<1>2. /\ stores'[x] \in Seq(S) /\ Len(stores'[x]) = Len(stores[x]) - 1
      /\ Len(stores[x]) \in Nat /\ Len(stores'[x]) >= 1
      /\ \A i \in 1 .. Len(stores'[x]) : stores'[x][i] = stores[x][i + 1]
  <2>1. Len(stores[x]) \in Nat /\ stores[x] # <<>>
    OBVIOUS
  <2>2. Tail(stores[x]) \in Seq(S) /\ Len(Tail(stores[x])) = Len(stores[x]) - 1
    BY <2>1
  <2>3. \A i \in 1 .. Len(stores[x]) - 1 : Tail(stores[x])[i] = stores[x][i + 1]
    BY <2>1
  <2> QED
    BY <1>1, <2>1, <2>2, <2>3
<1>3. stores'[x][Len(stores'[x])] = stores[x][Len(stores[x])]
  <2>1. Len(stores'[x]) \in 1 .. Len(stores'[x]) /\ Len(stores'[x]) + 1 = Len(stores[x])
    BY <1>2
  <2> QED
    BY <1>2, <2>1
<1> QED
  BY <1>2, <1>3 DEF drain, Latest

\* A stealer's own state, and what the others see of it.
LEMMA StealerStores ==
  ASSUME StoresInv, NEW s \in Stealers
  PROVE  /\ s \in Actors /\ s # Owner /\ Len(stores[s]) \in Nat /\ Len(stores[s]) \in 1 .. Len(stores[s])
         /\ 1 \in 1 .. Len(stores[s])
         /\ Latest(s) \in StealerState /\ Seen(s) \in StealerState
         /\ \A i \in 1 .. Len(stores[s]) : stores[s][i] \in StealerState
         /\ Fenced(s) => Seen(s) = Latest(s)
  BY ChaseLevAssumption DEF StoresInv, Actors, Latest, Seen, Fenced

LEMMA OwnerStores ==
  ASSUME StoresInv
  PROVE  /\ Owner \in Actors /\ Len(stores[Owner]) \in Nat /\ 1 \in 1 .. Len(stores[Owner])
         /\ \A i \in 1 .. Len(stores[Owner]) :
              stores[Owner][i].bottom \in Int /\ stores[Owner][i].buffer \in 0 .. buffer
         /\ Seen(Owner).buffer \in 0 .. buffer /\ buffer \in Nat
         /\ Fenced(Owner) => Seen(Owner) = Latest(Owner)
<1>1. Owner \in Actors /\ Len(stores[Owner]) \in Nat /\ 1 \in 1 .. Len(stores[Owner])
  BY DEF StoresInv, Actors
<1>2. buffer \in Nat
  BY LenNat DEF StoresInv, buffer
<1>3. ASSUME NEW i \in 1 .. Len(stores[Owner])
      PROVE  stores[Owner][i].bottom \in Int /\ stores[Owner][i].buffer \in 0 .. buffer
  <2>1. stores[Owner][i] \in OwnerState
    BY <1>3 DEF StoresInv
  <2> QED
    BY <1>2, <1>3, <2>1 DEF StoresInv, OwnerState
<1> QED
  BY <1>1, <1>2, <1>3 DEF Seen, Latest, Fenced

\* The buffers, and what the owner stores.
LEMMA OwnerChanges ==
  ASSUME StoresInv, OwnerStep
  PROVE  /\ BuffersOK' /\ Len(buffers) \in Nat
         /\ Len(buffers') \in {Len(buffers), Len(buffers) + 1}
         /\ a' = a /\ bottom' \in Int
         /\ \/ stores' = stores /\ bottom' = bottom
            \/ Store(Owner, [bottom |-> bottom', buffer |-> buffer'])
<1>1. BuffersOK /\ Len(buffers) \in Nat /\ bottom \in Int
  BY LenNat DEF StoresInv
<1>2. CASE pushFit \/ popFit
  <2>1. a' = a /\ bottom' = bottom
    BY <1>2 DEF pushFit, popFit
  <2>2. (buffers' = buffers /\ stores' = stores) \/ \E hi, lo, n : resize(hi, lo, n)
    BY <1>2 DEF pushFit, popFit
  <2>3. ASSUME NEW hi, NEW lo, NEW n, resize(hi, lo, n)
        PROVE  /\ BuffersOK' /\ Len(buffers') = Len(buffers) + 1
               /\ Store(Owner, [bottom |-> bottom', buffer |-> buffer'])
    <3>1. PICK new : buffers' = Append(buffers, new)
      BY <2>3 DEF resize
    <3>2. BuffersOK' /\ Len(buffers') = Len(buffers) + 1
      BY <1>1, <3>1, BufferAdded
    <3>3. buffer' = buffer + 1
      BY <1>1, <3>2 DEF buffer
    <3> QED
      BY <2>1, <2>3, <3>2, <3>3 DEF resize
  <2> QED
    BY <1>1, <2>1, <2>2, <2>3 DEF BuffersOK
<1>3. CASE pushPut
  <2>1. PICK new : buffers' = [buffers EXCEPT ![buffer + 1] = new]
    BY <1>3 DEF pushPut
  <2> QED
    BY <1>1, <1>3, <2>1, BufferWritten DEF pushPut
<1>4. CASE pushBottom \/ popBottom \/ popRestore
  <2>1. PICK b \in Int : StoreBottom(b) /\ buffers' = buffers /\ a' = a
    BY <1>1, <1>4 DEF pushBottom, popBottom, popRestore
  <2>2. buffer' = buffer
    BY <2>1 DEF buffer
  <2> QED
    BY <1>1, <2>1, <2>2 DEF StoreBottom, BuffersOK
<1>5. CASE pushTop \/ popTop \/ popCas \/ reclaimIdle \/ reclaimId \/ reclaimDelete
  <2>1. buffers' = buffers /\ a' = a /\ stores' = stores /\ bottom' = bottom
    BY <1>5 DEF pushTop, popTop, popCas, reclaimIdle, reclaimId, reclaimDelete, deque
  <2> QED
    BY <1>1, <2>1 DEF BuffersOK
<1> QED
  BY <1>2, <1>3, <1>4, <1>5 DEF OwnerStep

\* What a stealer stores: its last state, but for one part.
LEMMA StealerChanges ==
  ASSUME StoresInv, NEW s \in Stealers, Step(s)
  PROVE  /\ UNCHANGED <<buffers, bottom, unlinked>> /\ a' \in [Stealers -> Nat]
         /\ \A u \in Stealers \ {s} : a'[u] = a[u]
         /\ stores' = stores \/ \E r \in StealerState : Store(s, r)
<1>1. a \in [Stealers -> Nat] /\ Latest(s) \in StealerState /\ Len(buffers) \in Nat
  BY StealerStores, LenNat DEF StoresInv
<1>2. Seen(Owner).buffer \in Nat
  BY OwnerStores
<1> USE DEF deque
<1>3. CASE register_thread(s) \/ stealTop(s) \/ stealBottom(s) \/ stealGet(s)
  BY <1>1, <1>3 DEF register_thread, stealTop, stealBottom, stealGet
<1>4. CASE stealBuffer(s) \/ stealLast(s)
  BY <1>1, <1>2, <1>4 DEF stealBuffer, stealLast
<1>5. CASE stealBegin(s) \/ stealEnd(s)
  <2>1. PICK v \in BOOLEAN : Store(s, [Latest(s) EXCEPT !.was_idle = v])
    BY <1>5 DEF stealBegin, stealEnd
  <2>2. [Latest(s) EXCEPT !.was_idle = v] \in StealerState
    BY <1>1 DEF StealerState
  <2> QED
    BY <1>1, <1>5, <2>1, <2>2 DEF stealBegin, stealEnd
<1>6. CASE stealId(s)
  <2>1. PICK i \in Nat : Store(s, [Latest(s) EXCEPT !.id_last_used = i])
    <3>1. PICK i \in (IF Deleted(a[s]) THEN 0 .. Len(buffers) ELSE {a[s]}) :
            Store(s, [Latest(s) EXCEPT !.id_last_used = i])
      BY <1>6 DEF stealId
    <3>2. i \in Nat
      BY <1>1, <3>1
    <3> QED
      BY <3>1, <3>2
  <2>2. [Latest(s) EXCEPT !.id_last_used = i] \in StealerState
    BY <1>1 DEF StealerState
  <2> QED
    BY <1>1, <1>6, <2>1, <2>2 DEF stealId
<1>7. CASE stealCas(s)
  BY <1>1, <1>7 DEF stealCas
<1> QED
  BY <1>3, <1>4, <1>5, <1>6, <1>7 DEF Step

LEMMA InitStores == Init => StoresInv
<1> SUFFICES ASSUME Init PROVE StoresInv
  OBVIOUS
<1>1. BuffersOK /\ Len(buffers) = 1
  <2>1. PICK new : buffers = <<new>>
    BY DEF Init
  <2>2. buffers \in Seq({new})
    BY <2>1
  <2> QED
    BY <2>1, <2>2 DEF BuffersOK
<1>2. bottom \in Int /\ a \in [Stealers -> Nat] /\ DOMAIN stores = Actors
  BY DEF Init
<1>3. stores[Owner] = <<[bottom |-> 0, buffer |-> 0]>> /\ bottom = 0
  BY DEF Init, Actors
<1>4. [bottom |-> 0, buffer |-> 0] \in OwnerState
  BY DEF OwnerState
<1>5. /\ stores[Owner] \in Seq(OwnerState) /\ Len(stores[Owner]) = 1
      /\ stores[Owner][1] = [bottom |-> 0, buffer |-> 0]
  BY <1>3, <1>4
<1>6. Latest(Owner).bottom = bottom
  BY <1>3, <1>5 DEF Latest
<1>7. \A i \in 1 .. Len(stores[Owner]) : stores[Owner][i].buffer <= buffer
  BY <1>1, <1>5 DEF buffer
<1>8. ASSUME NEW s \in Stealers PROVE stores[s] \in Seq(StealerState) /\ Len(stores[s]) >= 1
  <2>1. stores[s] = <<[was_idle |-> TRUE, id_last_used |-> 0]>>
    BY ChaseLevAssumption DEF Init, Actors
  <2>2. [was_idle |-> TRUE, id_last_used |-> 0] \in StealerState
    BY DEF StealerState
  <2> QED
    BY <2>1, <2>2
<1> QED
  BY <1>1, <1>2, <1>5, <1>6, <1>7, <1>8 DEF StoresInv

LEMMA NextStores == StoresInv /\ [Next]_vars => StoresInv'
<1> SUFFICES ASSUME StoresInv, [Next]_vars PROVE StoresInv'
  OBVIOUS
<1>1. /\ Owner \in Actors /\ Owner \notin Stealers /\ \A s \in Stealers : s \in Actors
      /\ buffer \in Nat /\ Len(buffers) \in Nat /\ Len(buffers) >= 1
  BY OwnerStores, LenNat, ChaseLevAssumption DEF Actors, StoresInv
<1>2. ASSUME UNCHANGED <<buffers, bottom>> PROVE BuffersOK' /\ Len(buffers') >= 1 /\ bottom' \in Int /\ buffer' = buffer
  BY <1>2 DEF StoresInv, BuffersOK, buffer
<1>3. ASSUME NEW x \in Actors, drain(x) PROVE StoresInv'
  <2>1. UNCHANGED <<buffers, bottom, a>>
    BY <1>3 DEF drain, deque
  <2>2. CASE x = Owner
    <3>1. /\ DOMAIN stores' = Actors /\ \A y \in Actors \ {Owner} : stores'[y] = stores[y]
          /\ stores'[Owner] \in Seq(OwnerState) /\ Len(stores'[Owner]) = Len(stores[Owner]) - 1
          /\ Len(stores'[Owner]) >= 1 /\ Latest(Owner)' = Latest(Owner)
          /\ \A i \in 1 .. Len(stores'[Owner]) : stores'[Owner][i] = stores[Owner][i + 1]
      BY <1>3, <2>2, DrainFacts DEF StoresInv
    <3>2. \A i \in 1 .. Len(stores'[Owner]) : stores'[Owner][i].buffer <= buffer
      <4> SUFFICES ASSUME NEW i \in 1 .. Len(stores'[Owner]) PROVE stores'[Owner][i].buffer <= buffer
        OBVIOUS
      <4>1. i + 1 \in 1 .. Len(stores[Owner])
        BY <3>1, OwnerStores
      <4> QED
        BY <3>1, <4>1 DEF StoresInv
    <3> QED
      BY <1>1, <1>2, <2>1, <3>1, <3>2 DEF StoresInv
  <2>3. CASE x \in Stealers
    <3>1. /\ DOMAIN stores' = Actors /\ \A y \in Actors \ {x} : stores'[y] = stores[y]
          /\ stores'[x] \in Seq(StealerState) /\ Len(stores'[x]) >= 1
      BY <1>1, <1>3, <2>3, DrainFacts DEF StoresInv
    <3>2. stores'[Owner] = stores[Owner]
      BY <1>1, <2>3, <3>1
    <3> QED
      BY <1>1, <1>2, <2>1, <2>3, <3>1, <3>2 DEF StoresInv, Latest
  <2> QED
    BY <2>2, <2>3 DEF Actors
<1>4. CASE OwnerStep
  <2>1. /\ BuffersOK' /\ Len(buffers') \in {Len(buffers), Len(buffers) + 1}
        /\ a' = a /\ bottom' \in Int
        /\ \/ stores' = stores /\ bottom' = bottom
           \/ Store(Owner, [bottom |-> bottom', buffer |-> buffer'])
    BY <1>4, OwnerChanges
  <2>2. buffer' \in Nat /\ buffer <= buffer'
    BY <1>1, <2>1 DEF buffer
  <2>3. CASE stores' = stores /\ bottom' = bottom
    <3>1. \A i \in 1 .. Len(stores[Owner]) : stores[Owner][i].buffer <= buffer'
      BY <1>1, <2>2, OwnerStores
    <3> QED
      BY <1>1, <2>1, <2>3, <3>1 DEF StoresInv, Latest
  <2>4. CASE Store(Owner, [bottom |-> bottom', buffer |-> buffer'])
    <3>1. PICK r \in OwnerState : r = [bottom |-> bottom', buffer |-> buffer']
      BY <2>1, <2>2 DEF OwnerState
    <3>2. /\ DOMAIN stores' = Actors /\ \A y \in Actors \ {Owner} : stores'[y] = stores[y]
          /\ stores'[Owner] \in Seq(OwnerState) /\ Len(stores'[Owner]) = Len(stores[Owner]) + 1
          /\ Latest(Owner)' = r /\ stores'[Owner][Len(stores[Owner]) + 1] = r
          /\ \A i \in 1 .. Len(stores[Owner]) : stores'[Owner][i] = stores[Owner][i]
      BY <1>1, <2>4, <3>1, StoreFacts DEF StoresInv
    <3>3. \A i \in 1 .. Len(stores'[Owner]) : stores'[Owner][i].buffer <= buffer'
      <4> SUFFICES ASSUME NEW i \in 1 .. Len(stores'[Owner]) PROVE stores'[Owner][i].buffer <= buffer'
        OBVIOUS
      <4>1. CASE i = Len(stores[Owner]) + 1
        BY <2>2, <3>1, <3>2, <4>1
      <4>2. CASE i # Len(stores[Owner]) + 1
        <5>1. i \in 1 .. Len(stores[Owner])
          BY <3>2, <4>2, OwnerStores
        <5> QED
          BY <1>1, <2>2, <3>2, <5>1, OwnerStores
      <4> QED
        BY <4>1, <4>2
    <3>4. Len(stores'[Owner]) >= 1 /\ Len(buffers') >= 1
      BY <1>1, <2>1, <3>2, OwnerStores
    <3>5. Latest(Owner)'.bottom = bottom'
      BY <3>1, <3>2
    <3>6. stores'[Owner] \in Seq(OwnerState) /\ DOMAIN stores' = Actors
      BY <3>2
    <3>7. \A s \in Stealers : stores'[s] \in Seq(StealerState) /\ Len(stores'[s]) >= 1
      BY <1>1, <3>2 DEF StoresInv
    <3> QED
      BY <2>1, <3>3, <3>4, <3>5, <3>6, <3>7 DEF StoresInv
  <2> QED
    BY <2>1, <2>3, <2>4
<1>5. ASSUME NEW s \in Stealers, Step(s) PROVE StoresInv'
  <2>1. /\ UNCHANGED <<buffers, bottom>> /\ a' \in [Stealers -> Nat]
        /\ stores' = stores \/ \E r \in StealerState : Store(s, r)
    BY <1>5, StealerChanges
  <2>2. CASE stores' = stores
    BY <1>2, <2>1, <2>2 DEF StoresInv, Latest
  <2>3. ASSUME NEW r \in StealerState, Store(s, r) PROVE StoresInv'
    <3>1. /\ DOMAIN stores' = Actors /\ \A y \in Actors \ {s} : stores'[y] = stores[y]
          /\ stores'[s] \in Seq(StealerState) /\ Len(stores'[s]) = Len(stores[s]) + 1
      BY <1>1, <2>3, StoreFacts DEF StoresInv
    <3>2. stores'[Owner] = stores[Owner] /\ Len(stores'[s]) >= 1
      BY <1>1, <3>1, StealerStores
    <3> QED
      BY <1>1, <1>2, <2>1, <3>1, <3>2 DEF StoresInv, Latest
  <2> QED
    BY <2>1, <2>2, <2>3
<1>6. CASE UNCHANGED vars
  BY <1>2, <1>6 DEF vars, deque, StoresInv, Latest
<1> QED
  BY <1>3, <1>4, <1>5, <1>6 DEF Next
-----------------------------------------------------------------------------
(***************************************************************************)
(* The reclaimer, and the owner.                                           *)
(***************************************************************************)
LEMMA InitReclaim == Init => ReclaimInv
<1> SUFFICES ASSUME Init PROVE ReclaimInv
  OBVIOUS
<1>1. Len(buffers) = 1
  BY DEF Init
<1>2. /\ \A s \in Stealers : pc[s] = "unregistered" /\ s # Owner
      /\ pc[Owner] = "idle" /\ DOMAIN pc = Actors
  BY ChaseLevAssumption DEF Init, Actors
<1>3. TypeInv
  <2>1. /\ unlinked \in Nat \cup {Null} /\ min_id \in Nat
        /\ id_list \in Seq(Stealers) /\ head \in Seq(Stealers)
    BY DEF Init
  <2>2. outdated \in [Stealers -> BOOLEAN] /\ misread \in BOOLEAN
    BY DEF Init
  <2> QED
    BY <1>2, <2>1, <2>2 DEF TypeInv, StealerLabels
<1>4. ASSUME NEW s \in Stealers
      PROVE  /\ stores[s] = <<[was_idle |-> TRUE, id_last_used |-> 0]>>
             /\ Latest(s).was_idle = TRUE
             /\ \A i \in 1 .. Len(stores[s]) : stores[s][i].id_last_used <= buffer
  <2>1. stores[s] = <<[was_idle |-> TRUE, id_last_used |-> 0]>>
    BY <1>2 DEF Init, Actors
  <2> QED
    BY <1>1, <2>1 DEF Latest, buffer
<1>5. FlagInv
  BY <1>2, <1>4 DEF FlagInv, Working, Behind
<1>6. UnlinkedInv
  BY <1>1, <1>2 DEF Init, UnlinkedInv, ReclaimLabels
<1>7. IdInv /\ ScanInv
  BY <1>2, <1>4 DEF IdInv, ScanInv, Current, Stealing, ReclaimLabels
<1> QED
  BY <1>3, <1>5, <1>6, <1>7 DEF ReclaimInv, BasicInv

LEMMA OwnerGoto ==
  ASSUME TypeInv, NEW l, Goto(Owner, l), outdated' = outdated
  PROVE  /\ pc'[Owner] = l /\ DOMAIN pc' = Actors
         /\ \A s \in Stealers : pc'[s] = pc[s] /\ (Current(s)' <=> Current(s))
  BY ChaseLevAssumption DEF TypeInv, Goto, Actors, Stealing, Current

\* The owner does not touch the flags of the stealers.
LEMMA OwnerKeepsStealers ==
  ASSUME StoresInv, OwnerStep
  PROVE  /\ \A s \in Stealers : stores'[s] = stores[s]
         /\ a' = a /\ misread' = misread /\ outdated' = outdated /\ id_list' = id_list
<1>1. a' = a /\ (stores' = stores \/ \E r : Store(Owner, r))
  BY OwnerChanges
<1>2. \A s \in Stealers : stores'[s] = stores[s]
  BY <1>1, ChaseLevAssumption DEF Store, StoresInv, Actors
<1>3. misread' = misread /\ outdated' = outdated /\ id_list' = id_list
  BY DEF OwnerStep, pushTop, pushFit, pushPut, pushBottom, popBottom, popTop, popCas, popRestore, popFit,
     reclaimIdle, reclaimId, reclaimDelete, StartReclaim, Received, history, reclaimer
<1> QED
  BY <1>1, <1>2, <1>3

LEMMA FlagsKept ==
  ASSUME FlagInv, \A s \in Stealers : stores'[s] = stores[s] /\ pc'[s] = pc[s], id_list' = id_list
  PROVE  FlagInv'
  BY DEF FlagInv, Latest, Fenced, Listed

\* Outside of reclaim_buffers nothing is said of the owner.
LEMMA OwnerQuietSteps ==
  ASSUME StoresInv, ReclaimInv,
         pushTop \/ pushPut \/ pushBottom \/ popBottom \/ popTop \/ popCas \/ popRestore
  PROVE  ReclaimInv'
<1>1. TypeInv /\ FlagInv /\ UnlinkedInv
  BY DEF ReclaimInv, BasicInv
<1>2. /\ \A s \in Stealers : stores'[s] = stores[s]
      /\ a' = a /\ misread' = misread /\ outdated' = outdated /\ id_list' = id_list
  BY OwnerKeepsStealers DEF OwnerStep
<1>3. UNCHANGED <<unlinked, min_id, head>>
  BY DEF pushTop, pushPut, pushBottom, popBottom, popTop, popCas, popRestore, deque, reclaimer
<1>4. Len(buffers') = Len(buffers)
  <2>1. CASE pushPut
    <3>1. PICK new : buffers' = [buffers EXCEPT ![buffer + 1] = new]
      BY <2>1 DEF pushPut
    <3> QED
      BY <3>1, BufferWritten DEF StoresInv
  <2>2. CASE pushTop \/ pushBottom \/ popBottom \/ popTop \/ popCas \/ popRestore
    BY <2>2 DEF pushTop, pushBottom, popBottom, popTop, popCas, popRestore, deque
  <2> QED
    BY <2>1, <2>2
<1>5. PICK l : l \notin ReclaimLabels /\ Goto(Owner, l)
  <2>1. "push_fit" \notin ReclaimLabels /\ "push_bottom" \notin ReclaimLabels
        /\ "idle" \notin ReclaimLabels /\ "pop_top" \notin ReclaimLabels
        /\ "pop_restore" \notin ReclaimLabels /\ "pop_cas" \notin ReclaimLabels
        /\ "pop_fit" \notin ReclaimLabels
    BY DEF ReclaimLabels
  <2> QED
    BY <2>1 DEF pushTop, pushPut, pushBottom, popBottom, popTop, popCas, popRestore
<1>6. /\ pc'[Owner] = l /\ DOMAIN pc' = Actors
      /\ \A s \in Stealers : pc'[s] = pc[s] /\ (Current(s)' <=> Current(s))
  BY <1>1, <1>2, <1>5, OwnerGoto
<1>7. TypeInv'
  BY <1>1, <1>2, <1>3, <1>6 DEF TypeInv
<1>8. FlagInv'
  BY <1>1, <1>2, <1>6, FlagsKept
<1>9. UnlinkedInv'
  BY <1>1, <1>3, <1>4, <1>5, <1>6 DEF UnlinkedInv, ReclaimLabels, buffer
<1>10. IdInv => IdInv'
  BY <1>2, <1>3, <1>4, <1>6 DEF IdInv, Deleted, buffer, Seen
<1>11. ScanInv'
  BY <1>5, <1>6 DEF ScanInv
<1> QED
  BY <1>2, <1>7, <1>8, <1>9, <1>10, <1>11 DEF ReclaimInv, BasicInv

\* A resize, and the list of the stealers that are to be looked at.
LEMMA FitSteps ==
  ASSUME StoresInv, ReclaimInv, pushFit \/ popFit
  PROVE  ReclaimInv'
<1>1. TypeInv /\ FlagInv /\ UnlinkedInv
  BY DEF ReclaimInv, BasicInv
<1>2. /\ \A s \in Stealers : stores'[s] = stores[s]
      /\ a' = a /\ misread' = misread /\ outdated' = outdated /\ id_list' = id_list
  BY OwnerKeepsStealers DEF OwnerStep
<1>3. min_id' = Len(buffers') - 1 /\ head' = id_list
  BY DEF pushFit, popFit, StartReclaim
<1>4. /\ Len(buffers') \in Nat /\ Len(buffers) \in Nat /\ Len(buffers) >= 1
      /\ \/ Len(buffers') = Len(buffers) + 1 /\ unlinked' = IF unlinked = Null THEN buffer ELSE unlinked
         \/ Len(buffers') = Len(buffers) /\ unlinked' = unlinked
  <2>1. \/ UNCHANGED <<buffers, unlinked>>
        \/ \E hi, lo, n : resize(hi, lo, n)
    BY DEF pushFit, popFit
  <2>2. ASSUME NEW hi, NEW lo, NEW n, resize(hi, lo, n)
        PROVE  /\ Len(buffers') = Len(buffers) + 1
               /\ unlinked' = IF unlinked = Null THEN buffer ELSE unlinked
    <3>1. PICK new : buffers' = Append(buffers, new)
      BY <2>2 DEF resize
    <3> QED
      BY <2>2, <3>1, BufferAdded DEF resize, StoresInv
  <2>3. Len(buffers) \in Nat /\ Len(buffers) >= 1
    BY LenNat DEF StoresInv
  <2> QED
    BY <2>1, <2>2, <2>3
<1>5. PICK l : /\ Goto(Owner, l)
               /\ l \in ReclaimLabels => unlinked' # Null /\ l \in {"push_reclaim", "pop_reclaim"}
  BY DEF pushFit, popFit, StartReclaim, ReclaimLabels
<1>6. /\ pc'[Owner] = l /\ DOMAIN pc' = Actors
      /\ \A s \in Stealers : pc'[s] = pc[s] /\ (Current(s)' <=> Current(s))
  BY <1>1, <1>2, <1>5, OwnerGoto
<1>7. unlinked' \in Nat \cup {Null} /\ min_id' \in Nat
  BY <1>1, <1>3, <1>4 DEF TypeInv, buffer
<1>8. TypeInv'
  BY <1>1, <1>2, <1>3, <1>6, <1>7 DEF TypeInv
<1>9. FlagInv'
  BY <1>1, <1>2, <1>6, FlagsKept
<1>10. UnlinkedInv'
  <2>1. unlinked' = Null => Len(buffers') = 1
    BY <1>1, <1>4, ChaseLevAssumption DEF UnlinkedInv, TypeInv, buffer
  <2>2. unlinked' # Null => unlinked' <= Len(buffers') - 1
    BY <1>1, <1>4, <1>7 DEF UnlinkedInv, TypeInv, buffer
  <2> QED
    BY <1>3, <1>4, <1>5, <1>6, <2>1, <2>2 DEF UnlinkedInv, buffer, ReclaimLabels
<1>11. ASSUME IdInv PROVE IdInv'
  <2>1. \A s \in Stealers : ~Deleted(a[s]) => ~Deleted(a[s])'
    <3>1. CASE unlinked' = unlinked
      BY <1>2, <3>1 DEF Deleted
    <3>2. CASE unlinked = Null /\ unlinked' = buffer
      <4>1. unlinked' = 0
        BY <1>1, <1>4, <3>2 DEF UnlinkedInv, buffer
      <4> QED
        BY <1>2, <4>1 DEF Deleted, StoresInv
    <3> QED
      BY <1>4, <3>1, <3>2
  <2>2. buffer' \in Int /\ buffer \in Int /\ buffer <= buffer'
    BY <1>4 DEF buffer
  <2>3. \A s \in Stealers : a[s] \in Int /\ \A i \in 1 .. Len(stores[s]) : stores[s][i].id_last_used \in Int
    BY StealerStores DEF StoresInv, StealerState
  <2> QED
    BY <1>2, <1>6, <1>11, <2>1, <2>2, <2>3 DEF IdInv, Seen
<1>12. ScanInv'
  <2>1. \A s \in Stealers : Current(s)' => Listed(s, head)'
    BY <1>1, <1>2, <1>3, <1>6 DEF FlagInv, Stealing, Current, Listed
  <2> QED
    BY <2>1 DEF ScanInv
<1> QED
  BY <1>2, <1>8, <1>9, <1>10, <1>11, <1>12 DEF ReclaimInv, BasicInv

\* One stealer is looked at.
LEMMA ScanSteps ==
  ASSUME StoresInv, ReclaimInv, reclaimIdle \/ reclaimId
  PROVE  ReclaimInv'
<1>1. TypeInv /\ FlagInv /\ UnlinkedInv
  BY DEF ReclaimInv, BasicInv
<1>2. /\ UNCHANGED <<buffers, unlinked, id_list, stores, a, outdated, misread>>
      /\ pc[Owner] \in ReclaimLabels /\ head # <<>>
  BY <1>1 DEF reclaimIdle, reclaimId, deque, history, Reclaiming, ReclaimLabels, UnlinkedInv
<1>3. PICK x \in Stealers : x = Head(head)
  BY <1>1, <1>2, TailListed DEF TypeInv
<1>4. \/ /\ Seen(x).was_idle /\ head' = Tail(head) /\ min_id' = min_id /\ pc' = pc
         /\ pc[Owner] \notin {"push_id", "pop_id"}
      \/ /\ head' = head /\ min_id' = min_id
         /\ Goto(Owner, "push_id") \/ Goto(Owner, "pop_id")
      \/ /\ head' = Tail(head) /\ min_id' = Min({min_id, Seen(x).id_last_used})
         /\ Goto(Owner, "push_reclaim") \/ Goto(Owner, "pop_reclaim")
  BY <1>3 DEF reclaimIdle, reclaimId, Reclaiming
<1>5. /\ pc'[Owner] \in ReclaimLabels /\ DOMAIN pc' = Actors
      /\ \A s \in Stealers : pc'[s] = pc[s] /\ (Current(s)' <=> Current(s))
  <2>1. CASE pc' = pc
    BY <1>1, <1>2, <2>1 DEF TypeInv, Stealing, Current
  <2>2. ASSUME NEW l \in ReclaimLabels, Goto(Owner, l)
        PROVE  /\ pc'[Owner] \in ReclaimLabels /\ DOMAIN pc' = Actors
               /\ \A s \in Stealers : pc'[s] = pc[s] /\ (Current(s)' <=> Current(s))
    BY <1>1, <1>2, <2>2, OwnerGoto
  <2> QED
    BY <1>4, <2>1, <2>2 DEF ReclaimLabels
<1>6. Seen(x).id_last_used \in Nat
  BY StealerStores DEF StealerState
<1>7. /\ head' \in Seq(Stealers) /\ min_id' \in Nat /\ min_id' <= min_id
      /\ pc'[Owner] \in {"push_id", "pop_id"} => head' # <<>>
  <2>1. Tail(head) \in Seq(Stealers) /\ min_id \in Nat /\ head \in Seq(Stealers)
    BY <1>1, <1>2, TailListed DEF TypeInv
  <2>2. CASE /\ head' = Tail(head) /\ min_id' = min_id /\ pc' = pc
             /\ pc[Owner] \notin {"push_id", "pop_id"}
    BY <2>1, <2>2
  <2>3. CASE /\ head' = head /\ min_id' = min_id
    BY <1>2, <2>1, <2>3
  <2>4. CASE /\ head' = Tail(head) /\ min_id' = Min({min_id, Seen(x).id_last_used})
             /\ Goto(Owner, "push_reclaim") \/ Goto(Owner, "pop_reclaim")
    <3>1. pc'[Owner] \in {"push_reclaim", "pop_reclaim"}
      BY <1>1, <1>2, <2>4, OwnerGoto
    <3> QED
      BY <1>6, <2>1, <2>4, <3>1, MinOfTwo
  <2> QED
    BY <1>4, <2>2, <2>3, <2>4
<1>8. TypeInv'
  BY <1>1, <1>2, <1>5, <1>7 DEF TypeInv
<1>9. FlagInv'
  BY <1>1, <1>2, <1>5, FlagsKept
<1>10. UnlinkedInv'
  <2>1. min_id \in Nat /\ min_id <= buffer /\ buffer' = buffer /\ buffer \in Int /\ unlinked # Null
    BY <1>1, <1>2, OwnerStores DEF UnlinkedInv, TypeInv, buffer
  <2> QED
    BY <1>1, <1>2, <1>5, <1>7, <2>1 DEF UnlinkedInv
<1>11. IdInv => IdInv'
  BY <1>2, <1>5 DEF IdInv, Deleted, buffer, Seen
<1>12. ASSUME IdInv, ScanInv PROVE ScanInv'
  <2> SUFFICES ASSUME NEW s \in Stealers, Current(s) PROVE (Listed(s, head) \/ min_id <= a[s])'
    BY <1>5 DEF ScanInv
  <2>1. /\ min_id \in Nat /\ a[s] \in Nat /\ Seen(s).id_last_used \in Nat /\ a'[s] = a[s]
        /\ Seen(s).id_last_used <= a[s]
    BY <1>1, <1>2, <1>12, StealerStores DEF TypeInv, StoresInv, StealerState, IdInv
  <2>2. ~Seen(s).was_idle
    <3>1. pc[s] \in Working /\ pc[s] \in Behind
      BY DEF Current, Stealing, Working, Behind
    <3> QED
      BY <1>1, <3>1, StealerStores DEF FlagInv
  <2>3. CASE min_id <= a[s]
    BY <1>7, <2>1, <2>3
  <2>4. CASE Listed(s, head)
    <3>1. s = x \/ Listed(s, Tail(head))
      BY <1>1, <1>2, <1>3, <2>4, TailListed DEF TypeInv
    <3>2. CASE head' = head
      BY <2>4, <3>2 DEF Listed
    <3>3. CASE head' = Tail(head) /\ Listed(s, Tail(head))
      BY <3>3 DEF Listed
    <3>4. CASE s = x /\ min_id' = Min({min_id, Seen(x).id_last_used})
      <4>1. min_id' <= Seen(s).id_last_used
        BY <2>1, <3>4, MinOfTwo
      <4> QED
        BY <1>7, <2>1, <4>1
    <3> QED
      BY <1>4, <2>2, <3>1, <3>2, <3>3, <3>4
  <2> QED
    BY <1>12, <1>2, <2>3, <2>4 DEF ScanInv
<1> QED
  BY <1>2, <1>8, <1>9, <1>10, <1>11, <1>12 DEF ReclaimInv, BasicInv

\* The end of the list: the buffers of whoever steals are kept.
LEMMA DeleteStep ==
  ASSUME StoresInv, ReclaimInv, reclaimDelete
  PROVE  ReclaimInv'
<1>1. TypeInv /\ FlagInv /\ UnlinkedInv
  BY DEF ReclaimInv, BasicInv
<1>2. /\ UNCHANGED <<buffers, id_list, stores, a, head, min_id, outdated, misread>>
      /\ pc[Owner] \in ReclaimLabels /\ head = <<>> /\ unlinked' = Max({unlinked, min_id})
  BY DEF reclaimDelete, reclaimer, history, Reclaiming, ReclaimLabels
<1>3. PICK l : Goto(Owner, l) /\ l \notin ReclaimLabels
  BY DEF reclaimDelete, ReclaimLabels
<1>4. /\ pc'[Owner] \notin ReclaimLabels /\ DOMAIN pc' = Actors
      /\ \A s \in Stealers : pc'[s] = pc[s] /\ (Current(s)' <=> Current(s))
  BY <1>1, <1>2, <1>3, OwnerGoto
<1>5. /\ unlinked \in Nat /\ min_id \in Nat /\ unlinked # Null /\ unlinked <= buffer
      /\ min_id <= buffer /\ buffer' = buffer
  BY <1>1, <1>2 DEF TypeInv, UnlinkedInv, buffer
<1>6. unlinked' \in {unlinked, min_id} /\ unlinked' \in Nat /\ unlinked' # Null
  BY <1>2, <1>5, MaxOfTwo, ChaseLevAssumption
<1>7. TypeInv'
  BY <1>1, <1>2, <1>4, <1>6 DEF TypeInv
<1>8. FlagInv'
  BY <1>1, <1>2, <1>4, FlagsKept
<1>9. UnlinkedInv'
  BY <1>4, <1>5, <1>6 DEF UnlinkedInv, ReclaimLabels
<1>10. ASSUME IdInv, ScanInv PROVE IdInv'
  <2>1. ASSUME NEW s \in Stealers, Current(s) PROVE ~Deleted(a[s])'
    <3>1. ~Listed(s, head)
      BY <1>2 DEF Listed
    <3>2. min_id <= a[s] /\ ~(a[s] < unlinked) /\ a[s] \in Nat
      BY <1>2, <1>5, <1>10, <2>1, <3>1 DEF ScanInv, IdInv, Deleted, StoresInv
    <3> QED
      BY <1>2, <1>5, <1>6, <3>2 DEF Deleted
  <2> QED
    BY <1>2, <1>4, <1>5, <1>10, <2>1 DEF IdInv, Seen
<1>11. ScanInv'
  BY <1>4 DEF ScanInv
<1> QED
  BY <1>2, <1>7, <1>8, <1>9, <1>10, <1>11 DEF ReclaimInv, BasicInv
-----------------------------------------------------------------------------
(***************************************************************************)
(* The reclaimer, and the stealers.                                        *)
(***************************************************************************)
LEMMA StealerGoto ==
  ASSUME TypeInv, NEW s \in Stealers, NEW l, Goto(s, l)
  PROVE  /\ pc'[Owner] = pc[Owner] /\ DOMAIN pc' = Actors /\ pc'[s] = l
         /\ \A u \in Stealers \ {s} : pc'[u] = pc[u]
  BY ChaseLevAssumption DEF TypeInv, Goto, Actors

\* What a step of a stealer has to respect.
LEMMA StealerStep ==
  ASSUME StoresInv, ReclaimInv, NEW s \in Stealers, UNCHANGED <<buffers, unlinked, head, min_id>>,
         NEW l \in StealerLabels, Goto(s, l),
         id_list' \in Seq(Stealers), \A u \in Stealers : Listed(u, id_list) => Listed(u, id_list'),
         l # "unregistered" => Listed(s, id_list'),
         \A u \in Stealers \ {s} : stores'[u] = stores[u] /\ a'[u] = a[u] /\ outdated'[u] = outdated[u],
         outdated' \in [Stealers -> BOOLEAN],
         Latest(s)'.was_idle <=> l \notin Working, l \in Behind => Fenced(s)',
         misread' \in BOOLEAN, misread => misread',
         Len(stores'[s]) \in Nat, Len(stores'[s]) >= 1,
         misread' \/ \A i \in 1 .. Len(stores'[s]) : stores'[s][i].id_last_used <= buffer,
         l = "steal_id" => a'[s] <= buffer,
         l \in {"steal_cas", "steal_get"} =>
           \/ outdated'[s] \/ a'[s] = buffer
           \/ Stealing(s) /\ outdated'[s] = outdated[s] /\ a'[s] = a[s] /\ stores'[s] = stores[s]
  PROVE  ReclaimInv'
<1>1. TypeInv /\ FlagInv /\ UnlinkedInv
  BY DEF ReclaimInv, BasicInv
<1>2. /\ pc'[Owner] = pc[Owner] /\ DOMAIN pc' = Actors /\ pc'[s] = l
      /\ \A u \in Stealers \ {s} : pc'[u] = pc[u] /\ (Current(u)' <=> Current(u))
  BY <1>1, StealerGoto DEF Stealing, Current
<1>3. buffer' = buffer /\ buffer \in Nat
  BY OwnerStores DEF buffer
<1>4. TypeInv'
  BY <1>1, <1>2 DEF TypeInv
<1>5. FlagInv'
  <2>1. ASSUME NEW u \in Stealers
        PROVE  /\ Latest(u)'.was_idle <=> pc'[u] \notin Working
               /\ pc'[u] \in Behind => Fenced(u)'
               /\ pc'[u] # "unregistered" => Listed(u, id_list')
    <3>1. CASE u = s
      BY <1>2, <3>1
    <3>2. CASE u # s
      BY <1>1, <1>2, <3>2 DEF FlagInv, Latest, Fenced
    <3> QED
      BY <3>1, <3>2
  <2> QED
    BY <2>1 DEF FlagInv, Listed
<1>6. UnlinkedInv'
  BY <1>1, <1>2, <1>3 DEF UnlinkedInv
<1>7. Current(s)' => \/ a'[s] = buffer
                     \/ Current(s) /\ a'[s] = a[s] /\ stores'[s] = stores[s]
  BY <1>2 DEF Current, Stealing
<1>8. ~(unlinked # Null /\ buffer < unlinked)
  BY <1>1, <1>3 DEF UnlinkedInv, TypeInv
<1>9. ASSUME IdInv, ScanInv, ~misread' PROVE IdInv'
  <2>1. ASSUME NEW u \in Stealers \ {s}
        PROVE  /\ \A i \in 1 .. Len(stores'[u]) : stores'[u][i].id_last_used <= buffer'
               /\ pc'[u] = "steal_id" => a'[u] <= buffer'
               /\ Current(u)' => stores'[u][1].id_last_used <= a'[u] /\ ~(unlinked' # Null /\ a'[u] < unlinked')
    BY <1>2, <1>3, <1>9 DEF IdInv, Seen, Deleted
  <2>2. /\ \A i \in 1 .. Len(stores'[s]) : stores'[s][i].id_last_used <= buffer'
        /\ pc'[s] = "steal_id" => a'[s] <= buffer'
    BY <1>2, <1>3, <1>9
  <2>3. Current(s)' => stores'[s][1].id_last_used <= a'[s] /\ ~(unlinked' # Null /\ a'[s] < unlinked')
    <3>1. CASE a'[s] = buffer
      BY <1>3, <1>8, <2>2, <3>1
    <3>2. CASE Current(s) /\ a'[s] = a[s] /\ stores'[s] = stores[s]
      BY <1>9, <3>2 DEF IdInv, Seen, Deleted
    <3> QED
      BY <1>7, <3>1, <3>2
  <2> QED
    BY <2>1, <2>2, <2>3 DEF IdInv, Seen, Deleted
<1>10. ASSUME IdInv, ScanInv, ~misread' PROVE ScanInv'
  <2> SUFFICES ASSUME pc[Owner] \in ReclaimLabels, NEW u \in Stealers, Current(u)'
               PROVE  Listed(u, head) \/ min_id <= a'[u]
    BY <1>2 DEF ScanInv, Listed
  <2>1. min_id <= buffer
    BY <1>1 DEF UnlinkedInv
  <2> QED
    BY <1>2, <1>7, <1>10, <2>1 DEF ScanInv
<1> QED
  BY <1>4, <1>5, <1>6, <1>9, <1>10 DEF ReclaimInv, BasicInv

\* A stealer has stored its next state.
LEMMA StealerStored ==
  ASSUME StoresInv, NEW s \in Stealers, NEW r \in StealerState, Store(s, r)
  PROVE  /\ \A u \in Stealers \ {s} : stores'[u] = stores[u]
         /\ Latest(s)' = r /\ Len(stores'[s]) \in Nat /\ Len(stores'[s]) >= 1
         /\ \A i \in 1 .. Len(stores'[s]) :
              stores'[s][i] = r \/ (i \in 1 .. Len(stores[s]) /\ stores'[s][i] = stores[s][i])
<1>1. /\ \A u \in Actors \ {s} : stores'[u] = stores[u]
      /\ Len(stores'[s]) = Len(stores[s]) + 1
      /\ Latest(s)' = r /\ stores'[s][Len(stores[s]) + 1] = r
      /\ \A i \in 1 .. Len(stores[s]) : stores'[s][i] = stores[s][i]
  BY StealerStores, StoreFacts DEF StoresInv
<1>2. Len(stores[s]) \in Nat
  BY StealerStores
<1>3. ASSUME NEW i \in 1 .. Len(stores'[s])
      PROVE  stores'[s][i] = r \/ (i \in 1 .. Len(stores[s]) /\ stores'[s][i] = stores[s][i])
  <2>1. i = Len(stores[s]) + 1 \/ i \in 1 .. Len(stores[s])
    BY <1>1, <1>2
  <2> QED
    BY <1>1, <2>1
<1> QED
  BY <1>1, <1>2, <1>3 DEF Actors

LEMMA StealerSteps ==
  ASSUME StoresInv, ReclaimInv, NEW s \in Stealers, Step(s)
  PROVE  ReclaimInv'
<1>1. TypeInv /\ FlagInv /\ UnlinkedInv
  BY DEF ReclaimInv, BasicInv
<1>2. /\ id_list \in Seq(Stealers) /\ misread \in BOOLEAN /\ outdated \in [Stealers -> BOOLEAN]
      /\ a \in [Stealers -> Nat] /\ buffer \in Nat
      /\ Len(stores[s]) \in Nat /\ Len(stores[s]) >= 1
      /\ Latest(s) \in StealerState
  BY <1>1, OwnerStores, StealerStores DEF TypeInv, StoresInv
<1>3. /\ Latest(s).was_idle <=> pc[s] \notin Working
      /\ pc[s] \in Behind => Fenced(s)
      /\ pc[s] # "unregistered" => Listed(s, id_list)
  BY <1>1 DEF FlagInv
<1>4. misread \/ \A i \in 1 .. Len(stores[s]) : stores[s][i].id_last_used <= buffer
  BY DEF ReclaimInv, IdInv
<1>5. UNCHANGED <<buffers, unlinked, head, min_id>>
  BY DEF Step, register_thread, stealBegin, stealTop, stealBottom, stealBuffer, stealCas, stealGet,
     stealEnd, stealLast, stealId, deque, reclaimer
<1>6. \A u \in Stealers : Listed(u, id_list) => Listed(u, id_list)
  OBVIOUS
<1> USE DEF At, history, reclaimer
<1>7. CASE register_thread(s)
  <2>1. /\ id_list' = <<s>> \o id_list /\ Goto(s, "idle") /\ pc[s] = "unregistered"
        /\ UNCHANGED <<stores, a, outdated, misread>>
    BY <1>7 DEF register_thread
  <2>2. id_list' \in Seq(Stealers) /\ Listed(s, id_list')
        /\ \A u \in Stealers : Listed(u, id_list) => Listed(u, id_list')
    <3>1. <<s>> \in Seq(Stealers) /\ Len(<<s>>) = 1
      OBVIOUS
    <3>2. /\ id_list' \in Seq(Stealers) /\ Len(id_list') = 1 + Len(id_list)
          /\ id_list'[1] = s /\ \A i \in 1 .. Len(id_list) : id_list'[i + 1] = id_list[i]
      BY <1>2, <2>1, <3>1
    <3>3. DOMAIN id_list' = 1 .. Len(id_list) + 1 /\ DOMAIN id_list = 1 .. Len(id_list)
          /\ Len(id_list) \in Nat
      BY <1>2, <3>2
    <3>4. Listed(s, id_list')
      BY <3>2, <3>3 DEF Listed
    <3>5. \A u \in Stealers : Listed(u, id_list) => Listed(u, id_list')
      <4> SUFFICES ASSUME NEW u \in Stealers, NEW i \in DOMAIN id_list, id_list[i] = u
                   PROVE  Listed(u, id_list')
        BY DEF Listed
      <4>1. i + 1 \in DOMAIN id_list' /\ id_list'[i + 1] = u
        BY <3>2, <3>3
      <4> QED
        BY <4>1 DEF Listed
    <3> QED
      BY <3>2, <3>4, <3>5
  <2>3. Latest(s)' = Latest(s)
    BY <2>1 DEF Latest
  <2> QED
    BY <1>2, <1>3, <1>4, <1>5, <2>1, <2>2, <2>3, StealerStep DEF StealerLabels, Working, Behind
<1>8. CASE stealBegin(s) \/ stealEnd(s)
  <2>1. PICK v \in BOOLEAN, l \in {"steal_top", "steal_last"} :
          /\ Store(s, [Latest(s) EXCEPT !.was_idle = v]) /\ Goto(s, l) /\ v = (l = "steal_last")
          /\ UNCHANGED <<id_list, a, outdated, misread>> /\ pc[s] # "unregistered"
    BY <1>8 DEF stealBegin, stealEnd
  <2>2. PICK r \in StealerState :
          r = [Latest(s) EXCEPT !.was_idle = v] /\ (r.was_idle <=> v) /\ r.id_last_used = Latest(s).id_last_used
    <3>1. PICK i \in Nat, f \in BOOLEAN : Latest(s) = [was_idle |-> f, id_last_used |-> i]
      BY <1>2 DEF StealerState
    <3>2. [Latest(s) EXCEPT !.was_idle = v] = [was_idle |-> v, id_last_used |-> i]
      BY <3>1
    <3>3. [was_idle |-> v, id_last_used |-> i] \in StealerState
      BY DEF StealerState
    <3> QED
      BY <3>1, <3>2, <3>3
  <2>3. /\ \A u \in Stealers \ {s} : stores'[u] = stores[u]
        /\ Latest(s)' = r /\ Len(stores'[s]) \in Nat /\ Len(stores'[s]) >= 1
        /\ \A i \in 1 .. Len(stores'[s]) :
             stores'[s][i] = r \/ (i \in 1 .. Len(stores[s]) /\ stores'[s][i] = stores[s][i])
    BY <2>1, <2>2, StealerStored
  <2>4. misread' \/ \A i \in 1 .. Len(stores'[s]) : stores'[s][i].id_last_used <= buffer
    <3>1. misread \/ r.id_last_used <= buffer
      BY <1>4, <2>2, StealerStores DEF Latest
    <3> QED
      BY <1>4, <2>1, <2>3, <3>1
  <2>5. l \in StealerLabels /\ l \notin Behind /\ (v <=> l \notin Working)
    BY <2>1 DEF StealerLabels, Working, Behind
  <2> QED
    BY <1>2, <1>3, <1>5, <2>1, <2>2, <2>3, <2>4, <2>5, StealerStep
<1>9. ASSUME UNCHANGED <<id_list, stores, outdated, misread>>, NEW l \in StealerLabels, Goto(s, l),
             pc[s] # "unregistered", l # "unregistered", l # "steal_id", a' = a,
             l \in Working <=> pc[s] \in Working, l \in Behind => Fenced(s),
             l \in {"steal_cas", "steal_get"} => Stealing(s)
      PROVE  ReclaimInv'
  <2>1. Latest(s)' = Latest(s) /\ (Fenced(s)' <=> Fenced(s))
    BY <1>9 DEF Latest, Fenced
  <2> QED
    BY <1>2, <1>3, <1>4, <1>5, <1>9, <2>1, StealerStep
<1>10. CASE stealTop(s) \/ stealBottom(s) \/ stealCas(s) \/ stealGet(s)
  <2>1. /\ UNCHANGED <<id_list, stores, a, outdated, misread>> /\ pc[s] \in Working /\ pc[s] # "unregistered"
    BY <1>10 DEF stealTop, stealBottom, stealCas, stealGet, Working
  <2>2. PICK l \in {"steal_bottom", "steal_buffer", "steal_get", "steal_end"} :
          /\ Goto(s, l) /\ (l \in Behind => Fenced(s))
          /\ l = "steal_get" => pc[s] = "steal_cas"
    BY <1>10 DEF stealTop, stealBottom, stealCas, stealGet, Behind
  <2>3. /\ l \in StealerLabels /\ l \in Working /\ l # "unregistered" /\ l # "steal_id"
        /\ l \in {"steal_cas", "steal_get"} => Stealing(s)
    BY <2>2 DEF StealerLabels, Working, Stealing
  <2>4. Goto(s, l) /\ (l \in Behind => Fenced(s))
    BY <2>2
  <2> QED
    BY <1>9, <2>1, <2>3, <2>4
<1>11. CASE stealBuffer(s) \/ stealLast(s)
  <2>1. PICK k \in 0 .. buffer : k = Seen(Owner).buffer
    BY OwnerStores
  <2>2. PICK l \in {"steal_cas", "steal_id"} :
          /\ Goto(s, l) /\ (l \in Working <=> pc[s] \in Working) /\ pc[s] # "unregistered"
          /\ l = "steal_cas" => pc[s] = "steal_buffer" /\ outdated' = [outdated EXCEPT ![s] = k # buffer]
          /\ l = "steal_id" => outdated' = outdated
          /\ a' = [a EXCEPT ![s] = k] /\ UNCHANGED <<id_list, stores, misread>>
    BY <1>11, <2>1 DEF stealBuffer, stealLast, Working
  <2>3. a'[s] = k /\ \A u \in Stealers \ {s} : a'[u] = a[u]
    BY <1>2, <2>2
  <2>4. /\ outdated' \in [Stealers -> BOOLEAN] /\ \A u \in Stealers \ {s} : outdated'[u] = outdated[u]
        /\ l = "steal_cas" => outdated'[s] = (k # buffer)
    BY <1>2, <2>2
  <2>5. l \in StealerLabels /\ l # "unregistered" /\ (l \in Behind => pc[s] \in Behind)
    BY <2>2 DEF StealerLabels, Working, Behind
  <2>6. Latest(s)' = Latest(s) /\ (Fenced(s)' <=> Fenced(s))
    BY <2>2 DEF Latest, Fenced
  <2>7. /\ l = "steal_id" => a'[s] <= buffer
        /\ l \in {"steal_cas", "steal_get"} => outdated'[s] \/ a'[s] = buffer
    BY <1>2, <2>1, <2>2, <2>3, <2>4
  <2> QED
    BY <1>2, <1>3, <1>4, <1>5, <2>2, <2>3, <2>4, <2>5, <2>6, <2>7, StealerStep
<1>12. CASE stealId(s)
  <2>1. PICK i \in Nat : /\ Store(s, [Latest(s) EXCEPT !.id_last_used = i])
                         /\ Deleted(a[s]) \/ i = a[s]
    <3>1. PICK i \in (IF Deleted(a[s]) THEN 0 .. Len(buffers) ELSE {a[s]}) :
            Store(s, [Latest(s) EXCEPT !.id_last_used = i])
      BY <1>12 DEF stealId
    <3>2. i \in Nat /\ (Deleted(a[s]) \/ i = a[s])
      <4>1. CASE Deleted(a[s])
        BY <3>1, <4>1, LenNat DEF StoresInv
      <4>2. CASE ~Deleted(a[s])
        BY <1>2, <3>1, <4>2
      <4> QED
        BY <4>1, <4>2
    <3> QED
      BY <3>1, <3>2
  <2>2. /\ Goto(s, "idle") /\ pc[s] = "steal_id" /\ UNCHANGED <<id_list, a, outdated>>
        /\ misread' = (misread \/ Deleted(a[s]))
    BY <1>12 DEF stealId
  <2>3. misread' \in BOOLEAN /\ (misread => misread') /\ (Deleted(a[s]) => misread')
    BY <2>2
  <2>4. PICK r \in StealerState :
          r = [Latest(s) EXCEPT !.id_last_used = i] /\ r.was_idle = Latest(s).was_idle /\ r.id_last_used = i
    BY <1>2, <2>1 DEF StealerState
  <2>5. /\ \A u \in Stealers \ {s} : stores'[u] = stores[u]
        /\ Latest(s)' = r /\ Len(stores'[s]) \in Nat /\ Len(stores'[s]) >= 1
        /\ \A k \in 1 .. Len(stores'[s]) :
             stores'[s][k] = r \/ (k \in 1 .. Len(stores[s]) /\ stores'[s][k] = stores[s][k])
    BY <2>1, <2>4, StealerStored
  <2>6. misread' \/ i <= buffer
    BY <2>1, <2>2, <2>3 DEF ReclaimInv, IdInv
  <2>7. misread' \/ \A k \in 1 .. Len(stores'[s]) : stores'[s][k].id_last_used <= buffer
    BY <1>4, <2>3, <2>4, <2>5, <2>6
  <2>8. Latest(s)'.was_idle <=> "idle" \notin Working
    BY <1>3, <2>2, <2>4, <2>5 DEF Working
  <2>9. "idle" \in StealerLabels /\ "idle" \notin Behind
    BY DEF StealerLabels, Behind
  <2> QED
    BY <1>2, <1>3, <1>5, <2>2, <2>3, <2>5, <2>7, <2>8, <2>9, StealerStep
<1> QED
  BY <1>7, <1>8, <1>10, <1>11, <1>12 DEF Step
-----------------------------------------------------------------------------
(***************************************************************************)
(* The theorem about the reclaimer.                                        *)
(***************************************************************************)
\* The others see the next state of a thread.
LEMMA DrainReclaim ==
  ASSUME StoresInv, ReclaimInv, NEW x \in Actors, drain(x)
  PROVE  ReclaimInv'
<1>1. TypeInv /\ FlagInv /\ UnlinkedInv
  BY DEF ReclaimInv, BasicInv
<1>2. UNCHANGED <<buffers, unlinked, pc, a, id_list, min_id, head, outdated, misread>>
  BY DEF drain, deque, reclaimer, history
<1>3. TypeInv' /\ UnlinkedInv'
  BY <1>1, <1>2 DEF TypeInv, UnlinkedInv, buffer
<1>4. ScanInv => ScanInv'
  BY <1>2 DEF ScanInv, Current, Stealing, Listed
<1>5. ASSUME NEW s \in Stealers
      PROVE  stores'[s] = stores[s]
             \/ /\ s = x /\ Latest(s)' = Latest(s) /\ ~Fenced(s)
                /\ \A i \in 1 .. Len(stores'[s]) : i + 1 \in 1 .. Len(stores[s]) /\ stores'[s][i] = stores[s][i + 1]
  <2>1. CASE s = x
    <3>1. /\ Len(stores'[s]) = Len(stores[s]) - 1 /\ Latest(s)' = Latest(s)
          /\ \A i \in 1 .. Len(stores'[s]) : stores'[s][i] = stores[s][i + 1]
      BY <2>1, DrainFacts DEF StoresInv
    <3>2. Len(stores[s]) \in Nat /\ ~Fenced(s)
      BY <2>1, StealerStores DEF drain
    <3> QED
      BY <2>1, <3>1, <3>2
  <2>2. CASE s # x
    BY <2>2, StealerStores DEF drain, StoresInv
  <2> QED
    BY <2>1, <2>2
<1>6. FlagInv'
  <2>1. ASSUME NEW s \in Stealers
        PROVE  /\ Latest(s)'.was_idle <=> pc[s] \notin Working
               /\ pc[s] \in Behind => Fenced(s)'
               /\ pc[s] # "unregistered" => Listed(s, id_list)
    BY <1>1, <1>5 DEF FlagInv, Latest, Fenced
  <2> QED
    BY <1>2, <2>1 DEF FlagInv, Listed
<1>7. ASSUME IdInv PROVE IdInv'
  <2>1. ASSUME NEW s \in Stealers
        PROVE  /\ \A i \in 1 .. Len(stores'[s]) : stores'[s][i].id_last_used <= buffer
               /\ Current(s) => stores'[s] = stores[s]
    <3>1. Current(s) => Fenced(s)
      BY <1>1 DEF FlagInv, Current, Stealing, Behind
    <3> QED
      BY <1>5, <1>7, <3>1 DEF IdInv
  <2> QED
    BY <1>2, <1>7, <2>1 DEF IdInv, Current, Stealing, Deleted, Seen, buffer
<1> QED
  BY <1>2, <1>3, <1>4, <1>6, <1>7 DEF ReclaimInv, BasicInv

LEMMA NextReclaim == StoresInv /\ ReclaimInv /\ [Next]_vars => ReclaimInv'
<1> SUFFICES ASSUME StoresInv, ReclaimInv, [Next]_vars PROVE ReclaimInv'
  OBVIOUS
<1>1. CASE OwnerStep
  BY <1>1, OwnerQuietSteps, FitSteps, ScanSteps, DeleteStep DEF OwnerStep
<1>2. ASSUME NEW s \in Stealers, Step(s) PROVE ReclaimInv'
  BY <1>2, StealerSteps
<1>3. ASSUME NEW x \in Actors, drain(x) PROVE ReclaimInv'
  BY <1>3, DrainReclaim
<1>4. CASE UNCHANGED vars
  <2>1. UNCHANGED <<buffers, unlinked, stores, pc, a, id_list, min_id, head, outdated, misread>>
    BY <1>4 DEF vars, deque, reclaimer, history
  <2>2. BasicInv'
    BY <2>1 DEF ReclaimInv, BasicInv, TypeInv, FlagInv, UnlinkedInv, Listed, Latest, Fenced, buffer
  <2>3. (IdInv => IdInv') /\ (ScanInv => ScanInv')
    BY <2>1 DEF IdInv, ScanInv, Current, Stealing, Deleted, Listed, Seen, buffer
  <2> QED
    BY <2>1, <2>2, <2>3 DEF ReclaimInv
<1> QED
  BY <1>1, <1>2, <1>3, <1>4 DEF Next

\* reclaim_buffers does not delete the buffer that a thief has loaded and may
\* still read its item from, however many stealers register and steal while it
\* looks at them, if the thief has seen the owner's last store of buffer when it
\* loads, and unless an id was read from a buffer that was already deleted.
THEOREM ChaseLevBuffers == Spec => []LatestBufferAlive
<1>1. ReclaimInv => LatestBufferAlive
  BY DEF ReclaimInv, IdInv, LatestBufferAlive, Current
<1> QED
  BY <1>1, InitStores, NextStores, InitReclaim, NextReclaim, PTL DEF Spec
-----------------------------------------------------------------------------
(***************************************************************************)
(* The deque itself: what it holds, and who takes it.                      *)
(***************************************************************************)
OwnerLabels == ReclaimLabels \cup
  {"idle", "push_fit", "push_put", "push_bottom", "pop_top", "pop_cas", "pop_restore", "pop_fit"}

Values == Items \cup {Garbage}

BufferType == UNION {[size : {n}, segment : [0 .. n - 1 -> Values]] : n \in Nat \ {0}}

DequeTypes ==
  /\ top \in Nat /\ bottom \in Int /\ pushed \in Nat
  /\ buffers \in Seq(BufferType) /\ Len(buffers) >= 1
  /\ t \in [Actors -> Int] /\ a \in [Stealers -> Nat]
  /\ DOMAIN pc = Actors /\ pc[Owner] \in OwnerLabels
  /\ claim \in [Actors -> Values \cup {NoItem}]

\* The items fit in with one place to spare, also after the push that the owner
\* is at: what it knows of top may be old, but top only grows.
RoomInv ==
  /\ top <= Bottom /\ Bottom - top < size(buffer)
  /\ pc[Owner] \in {"push_fit", "push_put", "push_bottom", "push_reclaim", "push_id"} =>
       t[Owner] <= top /\ pushed < MaxItems
  /\ At(Owner, "push_fit") => bottom - t[Owner] < size(buffer)
  /\ pc[Owner] \in {"push_put", "push_bottom", "push_reclaim", "push_id"} =>
       bottom + 1 - t[Owner] < size(buffer)
  /\ At(Owner, "push_bottom") => get(buffer, bottom) = pushed + 1
  /\ At(Owner, "pop_cas") => t[Owner] = bottom /\ t[Owner] <= top
  /\ At(Owner, "pop_fit") => t[Owner] <= top

\* A thief whose CAS will succeed takes an item that is there, and finds it in
\* the buffer that it has loaded.
ThiefInv == \A s \in Stealers :
  /\ pc[s] \in {"steal_bottom", "steal_buffer", "steal_cas", "steal_get"} => t[s] \in Nat /\ t[s] <= top
  /\ pc[s] \in {"steal_buffer", "steal_cas"} /\ t[s] = top => t[s] < Bottom
  /\ Stealing(s) => a[s] <= buffer
  /\ At(s, "steal_cas") /\ t[s] = top => get(a[s], t[s]) = get(buffer, t[s])
  /\ At(s, "steal_get") => t[s] < top /\ (t[s] + 1 = top => get(a[s], t[s]) = claim[s])

DequeInv == DequeTypes /\ RoomInv /\ ThiefInv

\* Whatever of bottom and buffer a thief sees: what lies below that bottom is in
\* that buffer, and in every one stored later, as it is in the last.
PendingInv ==
  LET pending == stores[Owner]
      last == 1 .. Len(pending) IN
  /\ \A i \in last : pending[i].bottom <= Bottom
  /\ \A i, k \in last, j \in Int :
       i <= k /\ top <= j /\ j < pending[i].bottom => get(pending[k].buffer, j) = get(buffer, j)
  /\ \A s \in Stealers, k \in last :
       At(s, "steal_buffer") /\ t[s] = top => get(pending[k].buffer, t[s]) = get(buffer, t[s])
-----------------------------------------------------------------------------
(***************************************************************************)
(* Places and what they hold.                                              *)
(***************************************************************************)
\* Positions less than n apart have different places.
LEMMA DifferentPlaces ==
  ASSUME NEW n \in Nat \ {0}, NEW i \in Int, NEW j \in Int, i < j, j - i < n
  PROVE  i % n # j % n
<1> DEFINE p == i \div n
           q == j \div n
<1>1. p \in Int /\ q \in Int /\ i = n * p + (i % n) /\ j = n * q + (j % n)
  OBVIOUS
<1>2. ASSUME i % n = j % n PROVE FALSE
  <2>1. n * q - n * p = j - i
    BY <1>1, <1>2
  <2> HIDE DEF p, q
  <2>2. n * (q - p) = j - i
    BY <1>1, <2>1
  <2>3. CASE q - p <= 0
    BY <1>1, <2>2, <2>3
  <2>4. CASE q - p >= 1
    BY <1>1, <2>2, <2>4
  <2> QED
    BY <1>1, <2>3, <2>4
<1> QED
  BY <1>2

LEMMA BufferFacts ==
  ASSUME DequeTypes
  PROVE  /\ Len(buffers) \in Nat /\ buffer \in Nat
         /\ \A i \in 0 .. buffer :
              /\ buffers[i + 1] \in BufferType /\ size(i) \in Nat \ {0}
              /\ buffers[i + 1].segment \in [0 .. size(i) - 1 -> Values]
              /\ \A j \in Int : j % size(i) \in 0 .. size(i) - 1 /\ get(i, j) \in Values
<1>1. Len(buffers) \in Nat /\ buffer \in Nat
  BY DEF DequeTypes, buffer
<1>2. ASSUME NEW i \in 0 .. buffer
      PROVE  /\ buffers[i + 1] \in BufferType /\ size(i) \in Nat \ {0}
             /\ buffers[i + 1].segment \in [0 .. size(i) - 1 -> Values]
  <2>1. i + 1 \in 1 .. Len(buffers)
    BY <1>1 DEF buffer
  <2>2. buffers[i + 1] \in BufferType
    BY <2>1 DEF DequeTypes
  <2>3. PICK n \in Nat \ {0} : buffers[i + 1] \in [size : {n}, segment : [0 .. n - 1 -> Values]]
    BY <2>2 DEF BufferType
  <2> QED
    BY <2>2, <2>3 DEF size
<1>3. ASSUME NEW i \in 0 .. buffer, NEW j \in Int
      PROVE  j % size(i) \in 0 .. size(i) - 1 /\ get(i, j) \in Values
  <2>1. j % size(i) \in 0 .. size(i) - 1
    BY <1>2
  <2> QED
    BY <1>2, <2>1 DEF get
<1> QED
  BY <1>1, <1>2, <1>3

\* push writes one place of the last buffer.
LEMMA PutFacts ==
  ASSUME DequeTypes, pushPut, pushed < MaxItems
  PROVE  /\ buffers' \in Seq(BufferType) /\ Len(buffers') = Len(buffers)
         /\ \A i \in 0 .. buffer : size(i)' = size(i)
         /\ get(buffer, bottom)' = pushed + 1
         /\ \A i \in 0 .. buffer, j \in Int :
              i # buffer \/ j % size(i) # bottom % size(i) => get(i, j)' = get(i, j)
<1> DEFINE p == bottom % size(buffer)
           old == buffers[buffer + 1]
           new == [old EXCEPT !.segment = [old.segment EXCEPT ![p] = pushed + 1]]
<1>1. /\ Len(buffers) \in Nat /\ buffer \in Nat /\ old \in BufferType /\ p \in 0 .. old.size - 1
      /\ old.segment \in [0 .. old.size - 1 -> Values] /\ old.size \in Nat \ {0} /\ bottom \in Int
  <2>1. buffer \in 0 .. buffer
    BY BufferFacts
  <2> QED
    BY <2>1, BufferFacts DEF DequeTypes, size
<1>2. buffers' = [buffers EXCEPT ![buffer + 1] = new] /\ buffer + 1 \in 1 .. Len(buffers)
  BY <1>1 DEF pushPut, buffer
<1>3. pushed + 1 \in Values
  BY ChaseLevAssumption DEF DequeTypes, Values, Items
<1>4. [old.segment EXCEPT ![p] = pushed + 1] \in [0 .. old.size - 1 -> Values]
  BY <1>1, <1>3
<1>5. /\ new.size = old.size /\ new.segment = [old.segment EXCEPT ![p] = pushed + 1]
      /\ new \in BufferType
  <2>1. PICK n \in Nat \ {0} : old \in [size : {n}, segment : [0 .. n - 1 -> Values]] /\ n = old.size
    BY <1>1 DEF BufferType
  <2>2. PICK seg \in [0 .. n - 1 -> Values] : seg = [old.segment EXCEPT ![p] = pushed + 1]
    BY <1>4, <2>1
  <2>3. new \in [size : {n}, segment : [0 .. n - 1 -> Values]] /\ new.size = old.size /\ new.segment = seg
    BY <2>1, <2>2
  <2> QED
    BY <2>2, <2>3 DEF BufferType
<1> HIDE DEF new
<1>6. buffers' \in Seq(BufferType) /\ Len(buffers') = Len(buffers)
  <2>1. buffers \in [1 .. Len(buffers) -> BufferType]
    BY DEF DequeTypes
  <2>2. buffers' \in [1 .. Len(buffers) -> BufferType]
    BY <1>2, <1>5, <2>1
  <2> QED
    BY <1>1, <2>2, LenProperties
<1>7. buffers'[buffer + 1] = new /\ \A i \in 0 .. buffer : i # buffer => buffers'[i + 1] = buffers[i + 1]
  BY <1>1, <1>2 DEF DequeTypes
<1>8. buffer' = buffer /\ bottom' = bottom
  BY <1>6 DEF buffer, pushPut
<1>9. \A i \in 0 .. buffer : size(i)' = size(i)
  BY <1>5, <1>7 DEF size
<1>10. get(buffer, bottom)' = pushed + 1
  <2>1. get(buffer, bottom)' = new.segment[p]
    BY <1>5, <1>7, <1>8 DEF get, size
  <2> QED
    BY <1>1, <1>5, <2>1
<1>11. ASSUME NEW i \in 0 .. buffer, NEW j \in Int, i # buffer \/ j % size(i) # bottom % size(i)
       PROVE  get(i, j)' = get(i, j)
  <2>1. CASE i # buffer
    BY <1>7, <2>1 DEF get, size
  <2>2. CASE i = buffer
    <3>1. j % old.size \in 0 .. old.size - 1 /\ j % old.size # p
      BY <1>1, <1>11, <2>2 DEF size
    <3>2. get(i, j)' = new.segment[j % old.size] /\ get(i, j) = old.segment[j % old.size]
      BY <1>5, <1>7, <2>2 DEF get, size
    <3> QED
      BY <1>1, <1>5, <3>1, <3>2
  <2> QED
    BY <2>1, <2>2
<1> QED
  BY <1>6, <1>9, <1>10, <1>11

\* A resize takes along what it should.
LEMMA ResizeFacts ==
  ASSUME DequeTypes, NEW hi \in Int, NEW lo \in Int, NEW n \in Nat \ {0}, hi - lo <= n, resize(hi, lo, n)
  PROVE  /\ buffers' \in Seq(BufferType) /\ Len(buffers') = Len(buffers) + 1
         /\ \A i \in 0 .. buffer : size(i)' = size(i) /\ \A j \in Int : get(i, j)' = get(i, j)
         /\ size(buffer)' = n /\ \A j \in lo .. hi - 1 : get(buffer, j)' = get(buffer, j)
<1> DEFINE Copied(k) == {j \in lo .. hi - 1 : j % n = k}
           seg == [k \in 0 .. n - 1 |-> IF Copied(k) = {} THEN Garbage ELSE get(buffer, Max(Copied(k)))]
           new == [NewBuffer(n) EXCEPT !.segment = seg]
<1>1. /\ Len(buffers) \in Nat /\ buffer \in Nat /\ buffers \in Seq(BufferType)
      /\ \A j \in Int : get(buffer, j) \in Values
  <2>1. buffer \in 0 .. buffer
    BY BufferFacts
  <2> QED
    BY <2>1, BufferFacts DEF DequeTypes
<1>2. buffers' = Append(buffers, new)
  BY DEF resize
<1>3. ASSUME NEW j \in lo .. hi - 1 PROVE Copied(j % n) # {} /\ Max(Copied(j % n)) = j
  <2>1. \A i \in lo .. hi - 1 : i % n = j % n => i = j
    <3> SUFFICES ASSUME NEW i \in lo .. hi - 1, i # j PROVE i % n # j % n
      OBVIOUS
    <3>1. i \in Int /\ j \in Int /\ j - i < n /\ i - j < n
      OBVIOUS
    <3>2. CASE i < j
      BY <3>1, <3>2, DifferentPlaces
    <3>3. CASE j < i
      BY <3>1, <3>3, DifferentPlaces
    <3> QED
      BY <3>1, <3>2, <3>3
  <2>2. Copied(j % n) = {j}
    BY <2>1
  <2>3. Max({j}) = j
    <3>1. \E x \in {j} : \A y \in {j} : x >= y
      OBVIOUS
    <3> QED
      BY <3>1 DEF Max
  <2> QED
    BY <2>2, <2>3
<1>4. seg \in [0 .. n - 1 -> Values]
  <2> SUFFICES ASSUME NEW k \in 0 .. n - 1
               PROVE  (IF Copied(k) = {} THEN Garbage ELSE get(buffer, Max(Copied(k)))) \in Values
    OBVIOUS
  <2>1. CASE Copied(k) = {}
    BY <2>1 DEF Values
  <2>2. CASE Copied(k) # {}
    <3>1. PICK j \in lo .. hi - 1 : j % n = k
      BY <2>2
    <3>2. Max(Copied(k)) = j /\ j \in Int
      BY <1>3, <3>1
    <3> QED
      BY <1>1, <2>2, <3>2
  <2> QED
    BY <2>1, <2>2
<1>5. new.size = n /\ new.segment = seg /\ new \in BufferType
  <2> HIDE DEF seg
  <2>1. new = [size |-> n, segment |-> seg]
    BY DEF NewBuffer
  <2>2. new \in [size : {n}, segment : [0 .. n - 1 -> Values]]
    BY <1>4, <2>1
  <2> QED
    BY <2>1, <2>2 DEF BufferType
<1>6. \A j \in lo .. hi - 1 : seg[j % n] = get(buffer, j)
  <2> SUFFICES ASSUME NEW j \in lo .. hi - 1 PROVE seg[j % n] = get(buffer, j)
    OBVIOUS
  <2>1. j % n \in 0 .. n - 1
    OBVIOUS
  <2> QED
    BY <1>3, <2>1
<1> HIDE DEF new, seg
<1>7. /\ buffers' \in Seq(BufferType) /\ Len(buffers') = Len(buffers) + 1
      /\ buffers'[Len(buffers) + 1] = new /\ \A i \in 1 .. Len(buffers) : buffers'[i] = buffers[i]
  BY <1>1, <1>2, <1>5
<1>8. ASSUME NEW i \in 0 .. buffer PROVE size(i)' = size(i) /\ \A j \in Int : get(i, j)' = get(i, j)
  <2>1. i + 1 \in 1 .. Len(buffers)
    BY <1>1 DEF buffer
  <2> QED
    BY <1>7, <2>1 DEF size, get
<1>9. buffer' = buffer + 1 /\ buffers'[buffer' + 1] = new
  BY <1>1, <1>7 DEF buffer
<1>10. \A j \in lo .. hi - 1 : get(buffer, j)' = get(buffer, j)
  BY <1>5, <1>6, <1>9 DEF get, size
<1>11. size(buffer)' = n
  BY <1>5, <1>9 DEF size
<1> QED
  BY <1>7, <1>8, <1>10, <1>11
-----------------------------------------------------------------------------
(***************************************************************************)
(* The owner, and the items.                                               *)
(***************************************************************************)
\* The thieves while the owner works: where the next item is, and the one that was
\* taken last, nothing changes.
LEMMA ThievesKept ==
  ASSUME DequeTypes, DequeTypes', ThiefInv,
         \A s \in Stealers : pc'[s] = pc[s] /\ t'[s] = t[s] /\ a'[s] = a[s] /\ claim'[s] = claim[s],
         top' \in {top, top + 1}, buffer <= buffer',
         top' = top /\ top < Bottom => top < Bottom',
         top' = top => \A k \in Int :
           /\ (k = top /\ k < Bottom) \/ k = top - 1 => \A i \in 0 .. buffer : get(i, k)' = get(i, k)
           /\ k = top /\ k < Bottom => get(buffer, k)' = get(buffer, k)
  PROVE  ThiefInv'
<1>1. buffer \in Nat /\ buffer' \in Nat /\ top \in Nat
  BY DEF DequeTypes, buffer
<1>2. ASSUME NEW s \in Stealers
      PROVE  /\ pc'[s] \in {"steal_bottom", "steal_buffer", "steal_cas", "steal_get"} =>
                  t'[s] \in Nat /\ t'[s] <= top'
             /\ pc'[s] \in {"steal_buffer", "steal_cas"} /\ t'[s] = top' => t'[s] < Bottom'
             /\ Stealing(s)' => a'[s] <= buffer'
             /\ pc'[s] = "steal_cas" /\ t'[s] = top' => get(a[s], t[s])' = get(buffer, t[s])'
             /\ pc'[s] = "steal_get" => t'[s] < top' /\ (t'[s] + 1 = top' => get(a[s], t[s])' = claim'[s])
  <2>1. PICK i \in Nat : i = a[s] /\ i = a'[s]
    BY DEF DequeTypes
  <2>2. PICK k \in Int : k = t[s] /\ k = t'[s]
    BY DEF DequeTypes, Actors
  <2>3. (Stealing(s)' <=> Stealing(s)) /\ (Stealing(s) => i \in 0 .. buffer)
    BY <1>1, <2>1 DEF ThiefInv, Stealing
  <2>4. ASSUME pc'[s] \in {"steal_buffer", "steal_cas"}, k = top' PROVE top' = top /\ k < Bottom
    <3>1. pc[s] \in {"steal_buffer", "steal_cas"} /\ k <= top
      BY <2>2, <2>4 DEF ThiefInv
    <3>2. top' = top
      BY <1>1, <2>4, <3>1
    <3> QED
      BY <2>2, <2>4, <3>1, <3>2 DEF ThiefInv
  <2>5. ASSUME pc'[s] = "steal_cas", k = top' PROVE get(i, k)' = get(buffer, k)'
    <3>1. top' = top /\ k < Bottom /\ pc[s] = "steal_cas"
      BY <2>4, <2>5
    <3>2. Stealing(s) /\ i \in 0 .. buffer
      BY <2>3, <3>1 DEF Stealing
    <3>3. get(i, k) = get(buffer, k)
      BY <2>1, <2>2, <2>5, <3>1 DEF ThiefInv, At
    <3> QED
      BY <2>5, <3>1, <3>2, <3>3
  <2>6. ASSUME pc'[s] = "steal_get", k + 1 = top' PROVE get(i, k)' = claim'[s]
    <3>1. top' = top /\ k = top - 1 /\ i \in 0 .. buffer /\ get(i, k) = claim[s]
      BY <1>1, <2>1, <2>2, <2>3, <2>6 DEF ThiefInv, Stealing, At
    <3> QED
      BY <3>1
  <2>7. get(a[s], t[s])' = get(i, k)' /\ get(buffer, t[s])' = get(buffer, k)'
    BY <2>1, <2>2 DEF get, size
  <2> QED
    BY <1>1, <2>1, <2>2, <2>3, <2>4, <2>5, <2>6, <2>7 DEF ThiefInv, At
<1> QED
  BY <1>2 DEF ThiefInv, At

LEMMA SameBuffers ==
  ASSUME buffers' = buffers
  PROVE  /\ buffer' = buffer /\ size(buffer)' = size(buffer)
         /\ \A i, k \in Int : get(i, k)' = get(i, k)
         /\ \A k \in Int : get(buffer, k)' = get(buffer, k)
  BY DEF buffer, size, get

LEMMA OwnerMoves ==
  ASSUME DequeTypes, NEW l \in OwnerLabels, Goto(Owner, l)
  PROVE  /\ DOMAIN pc' = Actors /\ pc'[Owner] = l
         /\ \A s \in Stealers : pc'[s] = pc[s]
  BY ChaseLevAssumption DEF DequeTypes, Goto, Actors

\* Steps of the owner that leave the buffers alone.
LEMMA OwnerKeeps ==
  ASSUME DequeInv, NEW l \in OwnerLabels, Goto(Owner, l), UNCHANGED <<buffers, a>>,
         top' \in {top, top + 1}, bottom' \in Int, pushed' \in Nat,
         t' \in [Actors -> Int], \A s \in Stealers : t'[s] = t[s],
         claim' \in [Actors -> Values \cup {NoItem}], \A s \in Stealers : claim'[s] = claim[s],
         top' = top /\ top < Bottom => top < Bottom'
  PROVE  DequeTypes' /\ ThiefInv'
<1>1. DequeTypes'
  BY OwnerMoves DEF DequeInv, DequeTypes
<1>2. \A s \in Stealers : pc'[s] = pc[s] /\ t'[s] = t[s] /\ a'[s] = a[s] /\ claim'[s] = claim[s]
  BY OwnerMoves DEF DequeInv
<1>3. buffer \in Nat /\ buffer' = buffer
  BY SameBuffers DEF DequeInv, DequeTypes, buffer
<1>4. \A k \in Int : /\ \A i \in 0 .. buffer : get(i, k)' = get(i, k)
                     /\ get(buffer, k)' = get(buffer, k)
  BY SameBuffers
<1> QED
  BY <1>1, <1>2, <1>3, <1>4, ThievesKept DEF DequeInv

\* What the owner does without the thieves' knowing.
LEMMA OwnerLocal ==
  ASSUME DequeInv, pushTop \/ pushBottom \/ popBottom \/ popRestore
  PROVE  DequeInv'
<1> USE DEF DequeInv
<1>1. /\ top' = top /\ buffers' = buffers /\ a' = a /\ claim' = claim
      /\ bottom \in Int /\ bottom' \in Int /\ pushed \in Nat /\ pushed' \in Nat /\ top \in Nat
      /\ t' \in [Actors -> Int] /\ \A s \in Stealers : t'[s] = t[s]
      /\ claim \in [Actors -> Values \cup {NoItem}]
  BY ChaseLevAssumption DEF pushTop, pushBottom, popBottom, popRestore, StoreBottom, deque, history, DequeTypes, Actors
<1>2. size(buffer)' = size(buffer) /\ size(buffer) \in Nat /\ buffer' = buffer
  BY <1>1, SameBuffers, BufferFacts
<1>3. ASSUME NEW l \in OwnerLabels, Goto(Owner, l), Bottom <= Bottom', Bottom \in Int, Bottom' \in Int
      PROVE  DequeTypes' /\ ThiefInv'
  BY <1>1, <1>3, OwnerKeeps
<1>4. CASE pushTop
  <2>1. /\ Goto(Owner, "push_fit") /\ "push_fit" \in OwnerLabels /\ pc[Owner] = "idle"
        /\ bottom' = bottom /\ pushed' = pushed /\ pushed < MaxItems /\ t'[Owner] = top
    BY <1>4 DEF pushTop, OwnerLabels, deque, At, DequeTypes, Actors
  <2>2. pc'[Owner] = "push_fit"
    BY <2>1, OwnerMoves
  <2>3. Bottom = bottom /\ Bottom' = bottom
    BY <2>1, <2>2 DEF Bottom
  <2>4. RoomInv'
    BY <1>1, <1>2, <2>1, <2>2, <2>3 DEF RoomInv, At
  <2> QED
    BY <1>1, <1>3, <2>1, <2>3, <2>4
<1>5. CASE pushBottom
  <2>1. /\ Goto(Owner, "idle") /\ "idle" \in OwnerLabels /\ pc[Owner] = "push_bottom" /\ bottom' = bottom + 1
    BY <1>5 DEF pushBottom, StoreBottom, OwnerLabels, At
  <2>2. pc'[Owner] = "idle"
    BY <2>1, OwnerMoves
  <2>3. Bottom = bottom /\ Bottom' = bottom + 1
    BY <2>1, <2>2 DEF Bottom
  <2>4. t[Owner] \in Int
    BY DEF DequeTypes, Actors
  <2>5. RoomInv'
    BY <1>1, <1>2, <2>1, <2>2, <2>3, <2>4 DEF RoomInv, At
  <2> QED
    BY <1>1, <1>3, <2>1, <2>3, <2>5
<1>6. CASE popBottom \/ popRestore
  <2>1. PICK l \in {"pop_top", "idle"} : Goto(Owner, l) /\ l \in OwnerLabels
    BY <1>6 DEF popBottom, popRestore, OwnerLabels
  <2>2. pc'[Owner] = l
    BY <2>1, OwnerMoves
  <2>3. Bottom' = Bottom /\ Bottom \in Int
    <3>1. CASE popBottom
      <4>1. pc[Owner] = "idle" /\ pc'[Owner] = "pop_top" /\ bottom' = bottom - 1
        BY <3>1, OwnerMoves DEF popBottom, StoreBottom, At, OwnerLabels
      <4> QED
        BY <1>1, <4>1 DEF Bottom
    <3>2. CASE popRestore
      <4>1. pc[Owner] = "pop_restore" /\ pc'[Owner] = "idle" /\ bottom' = bottom + 1
        BY <3>2, OwnerMoves DEF popRestore, StoreBottom, At, OwnerLabels
      <4> QED
        BY <1>1, <4>1 DEF Bottom
    <3> QED
      BY <1>6, <3>1, <3>2
  <2>4. RoomInv'
    BY <1>1, <1>2, <2>1, <2>2, <2>3 DEF RoomInv, At
  <2> QED
    BY <1>3, <2>1, <2>3, <2>4
<1> QED
  BY <1>4, <1>5, <1>6

LEMMA PopDecides ==
  ASSUME DequeInv, popTop
  PROVE  DequeInv'
<1> USE DEF DequeInv
<1>1. /\ top' = top /\ bottom' = bottom /\ pushed' = pushed /\ buffers' = buffers /\ a' = a
      /\ bottom \in Int /\ top \in Nat /\ pushed \in Nat /\ pc[Owner] = "pop_top"
      /\ t' \in [Actors -> Int] /\ t'[Owner] = top /\ \A s \in Stealers : t'[s] = t[s]
  BY ChaseLevAssumption DEF popTop, deque, DequeTypes, Actors, At
<1>2. size(buffer)' = size(buffer) /\ size(buffer) \in Nat /\ buffer' = buffer /\ get(buffer, bottom) \in Values
  <2>1. buffer \in 0 .. buffer
    BY BufferFacts
  <2> QED
    BY <1>1, <2>1, SameBuffers, BufferFacts
<1>3. Bottom = bottom + 1
  BY <1>1 DEF Bottom
<1>4. claim' \in [Actors -> Values \cup {NoItem}] /\ \A s \in Stealers : claim'[s] = claim[s]
  BY <1>2, ChaseLevAssumption DEF popTop, Received, history, DequeTypes, Actors
<1>5. CASE bottom + 1 - top <= 1
  <2>1. PICK l \in {"pop_restore", "pop_cas"} : Goto(Owner, l) /\ (l = "pop_cas" => top = bottom)
    BY <1>1, <1>5 DEF popTop
  <2>2. l \in OwnerLabels
    BY <2>1 DEF OwnerLabels
  <2>3. pc'[Owner] = l
    BY <2>1, <2>2, OwnerMoves
  <2>4. Bottom' = Bottom
    BY <1>1, <1>3, <2>1, <2>3 DEF Bottom
  <2>5. DequeTypes' /\ ThiefInv'
    BY <1>1, <1>4, <2>1, <2>2, <2>4, OwnerKeeps
  <2>6. RoomInv'
    BY <1>1, <1>2, <2>1, <2>3, <2>4 DEF RoomInv, At
  <2> QED
    BY <2>5, <2>6
<1>6. CASE bottom + 1 - top > 1
  <2>1. Goto(Owner, "pop_fit") /\ "pop_fit" \in OwnerLabels
    BY <1>1, <1>6 DEF popTop, OwnerLabels
  <2>2. pc'[Owner] = "pop_fit"
    BY <2>1, OwnerMoves
  <2>3. Bottom' = bottom
    BY <1>1, <2>2 DEF Bottom
  <2>4. DequeTypes' /\ ThiefInv'
    BY <1>1, <1>4, <1>6, <2>1, <2>3, OwnerKeeps
  <2>5. RoomInv'
    BY <1>1, <1>2, <1>3, <1>6, <2>2, <2>3 DEF RoomInv, At
  <2> QED
    BY <2>4, <2>5
<1> QED
  BY <1>1, <1>5, <1>6

LEMMA PopRaces ==
  ASSUME DequeInv, popCas
  PROVE  DequeInv'
<1> USE DEF DequeInv
<1>1. /\ top' \in {top, top + 1} /\ (top' = top + 1 => top = t[Owner])
      /\ bottom' = bottom /\ pushed' = pushed /\ buffers' = buffers /\ a' = a /\ t' = t
      /\ bottom \in Int /\ top \in Nat /\ pushed \in Nat /\ pc[Owner] = "pop_cas" /\ t \in [Actors -> Int]
      /\ Goto(Owner, "pop_restore") /\ "pop_restore" \in OwnerLabels /\ t[Owner] \in Int
  BY DEF popCas, DequeTypes, At, OwnerLabels, Actors
<1>2. size(buffer)' = size(buffer) /\ size(buffer) \in Nat /\ buffer' = buffer /\ get(buffer, t[Owner]) \in Values
  <2>1. buffer \in 0 .. buffer
    BY BufferFacts
  <2> QED
    BY <1>1, <2>1, SameBuffers, BufferFacts
<1>3. claim' \in [Actors -> Values \cup {NoItem}] /\ \A s \in Stealers : claim'[s] = claim[s]
  BY <1>2, ChaseLevAssumption DEF popCas, Received, history, DequeTypes, Actors
<1>4. pc'[Owner] = "pop_restore"
  BY <1>1, OwnerMoves
<1>5. Bottom = bottom + 1 /\ Bottom' = bottom + 1
  BY <1>1, <1>4 DEF Bottom
<1>6. DequeTypes' /\ ThiefInv'
  BY <1>1, <1>3, <1>5, OwnerKeeps
<1>7. t[Owner] = bottom
  BY <1>1 DEF RoomInv, At
<1>8. RoomInv'
  BY <1>1, <1>2, <1>4, <1>5, <1>7 DEF RoomInv, At
<1> QED
  BY <1>6, <1>8

\* A step that nobody sees: the items stay where they are.
Kept == /\ top' = top /\ Bottom' = Bottom /\ claim' = claim
        /\ \A j \in top .. Bottom - 1 : get(buffer, j)' = get(buffer, j)

LEMMA DequeSame ==
  ASSUME DequeInv, UNCHANGED <<top, bottom, pushed, buffers, t, a, pc, claim>>
  PROVE  DequeInv' /\ Kept
<1>1. DequeTypes'
  BY DEF DequeInv, DequeTypes
<1>2. RoomInv'
  BY DEF DequeInv, RoomInv, Bottom, At, size, get, buffer
<1>3. ThiefInv'
  BY DEF DequeInv, ThiefInv, Stealing, Bottom, At, size, get, buffer
<1>4. Kept
  BY DEF Kept, Bottom, size, get, buffer
<1> QED
  BY <1>1, <1>2, <1>3, <1>4 DEF DequeInv

LEMMA OwnerSilent ==
  ASSUME DequeInv, pushTop \/ popBottom \/ popRestore
  PROVE  Kept
<1>1. /\ top' = top /\ buffers' = buffers /\ claim' = claim /\ bottom \in Int /\ DequeTypes
  BY DEF pushTop, popBottom, popRestore, deque, history, DequeInv, DequeTypes
<1>2. Bottom' = Bottom
  <2>1. CASE pushTop
    <3>1. pc[Owner] = "idle" /\ pc'[Owner] = "push_fit" /\ bottom' = bottom
      BY <1>1, <2>1, OwnerMoves DEF pushTop, At, OwnerLabels, deque
    <3> QED
      BY <3>1 DEF Bottom
  <2>2. CASE popBottom
    <3>1. pc[Owner] = "idle" /\ pc'[Owner] = "pop_top" /\ bottom' = bottom - 1
      BY <1>1, <2>2, OwnerMoves DEF popBottom, StoreBottom, At, OwnerLabels
    <3> QED
      BY <1>1, <3>1 DEF Bottom
  <2>3. CASE popRestore
    <3>1. pc[Owner] = "pop_restore" /\ pc'[Owner] = "idle" /\ bottom' = bottom + 1
      BY <1>1, <2>3, OwnerMoves DEF popRestore, StoreBottom, At, OwnerLabels
    <3> QED
      BY <1>1, <3>1 DEF Bottom
  <2> QED
    BY <2>1, <2>2, <2>3
<1> QED
  BY <1>1, <1>2, SameBuffers DEF Kept

\* The next buffer takes along all that the deque holds.
LEMMA ResizeKeeps ==
  ASSUME DequeInv, NEW l \in OwnerLabels, Goto(Owner, l),
         NEW hi \in Int, NEW lo \in Int, NEW n \in Nat \ {0}, hi - lo <= n, resize(hi, lo, n),
         lo <= top, Bottom <= hi, Bottom \in Int, Bottom' = Bottom,
         UNCHANGED <<top, bottom, pushed, t, a, claim>>
  PROVE  DequeTypes' /\ ThiefInv' /\ size(buffer)' = n /\ Kept
<1> USE DEF DequeInv
<1>1. /\ buffers' \in Seq(BufferType) /\ Len(buffers') = Len(buffers) + 1
      /\ \A i \in 0 .. buffer : \A j \in Int : get(i, j)' = get(i, j)
      /\ size(buffer)' = n /\ \A j \in lo .. hi - 1 : get(buffer, j)' = get(buffer, j)
  BY ResizeFacts
<1>2. Len(buffers) \in Nat /\ Len(buffers) >= 1 /\ buffer \in Nat /\ buffer' = buffer + 1
  BY <1>1, BufferFacts DEF buffer, DequeTypes
<1>3. /\ DOMAIN pc' = Actors /\ pc'[Owner] = l
      /\ \A s \in Stealers : pc'[s] = pc[s]
  BY OwnerMoves
<1>4. DequeTypes'
  BY <1>1, <1>2, <1>3 DEF DequeTypes
<1>5. top \in Nat
  BY DEF DequeTypes
<1>6. \A k \in Int : k = top /\ k < Bottom => get(buffer, k)' = get(buffer, k)
  BY <1>1, <1>5
<1>7. ThiefInv'
  BY <1>1, <1>2, <1>3, <1>4, <1>5, <1>6, ThievesKept
<1>8. Kept
  BY <1>1, <1>5 DEF Kept
<1> QED
  BY <1>1, <1>4, <1>7, <1>8

LEMMA PushFits ==
  ASSUME DequeInv, pushFit
  PROVE  DequeInv' /\ Kept
<1> USE DEF DequeInv
<1>1. /\ UNCHANGED <<top, bottom, pushed, t, a, claim>>
      /\ bottom \in Int /\ top \in Nat /\ pushed \in Nat /\ pc[Owner] = "push_fit"
      /\ t[Owner] \in Int /\ t \in [Actors -> Int] /\ claim \in [Actors -> Values \cup {NoItem}]
  BY DEF pushFit, DequeTypes, At, Actors, history
<1>2. size(buffer) \in Nat \ {0}
  <2>1. buffer \in 0 .. buffer
    BY BufferFacts
  <2> QED
    BY <2>1, BufferFacts
<1>3. PICK l \in {"push_put", "push_reclaim"} : Goto(Owner, l)
  BY DEF pushFit, StartReclaim
<1>4. l \in OwnerLabels
  BY <1>3 DEF OwnerLabels, ReclaimLabels
<1>5. pc'[Owner] = l
  BY <1>3, <1>4, OwnerMoves
<1>6. Bottom = bottom /\ Bottom' = bottom
  BY <1>1, <1>3, <1>5 DEF Bottom
<1>7. /\ t[Owner] <= top /\ pushed < MaxItems /\ bottom - t[Owner] < size(buffer)
      /\ top <= bottom
  BY <1>1, <1>6 DEF RoomInv, At
<1>8. CASE Full
  <2>1. 2 * size(buffer) \in Nat \ {0} /\ bottom - t[Owner] <= 2 * size(buffer)
    BY <1>1, <1>2, <1>7
  <2>2. resize(bottom, t[Owner], 2 * size(buffer))
    BY <1>8 DEF pushFit
  <2>3. DequeTypes' /\ ThiefInv' /\ size(buffer)' = 2 * size(buffer) /\ Kept
    BY <1>1, <1>3, <1>4, <1>6, <1>7, <2>1, <2>2, ResizeKeeps
  <2>4. RoomInv'
    BY <1>1, <1>2, <1>3, <1>5, <1>6, <1>7, <2>3 DEF RoomInv, At
  <2> QED
    BY <2>3, <2>4
<1>9. CASE ~Full
  <2>1. buffers' = buffers
    BY <1>9 DEF pushFit
  <2>2. DequeTypes' /\ ThiefInv'
    BY <1>1, <1>3, <1>4, <1>6, <2>1, OwnerKeeps
  <2>3. size(buffer)' = size(buffer)
    BY <2>1, SameBuffers
  <2>4. RoomInv'
    BY <1>1, <1>2, <1>3, <1>5, <1>6, <1>7, <1>9, <2>3 DEF RoomInv, At, Full
  <2>5. Kept
    BY <1>1, <1>6, <2>1, SameBuffers DEF Kept
  <2> QED
    BY <2>2, <2>4, <2>5
<1> QED
  BY <1>8, <1>9

LEMMA PopFits ==
  ASSUME DequeInv, popFit
  PROVE  DequeInv' /\ Kept
<1> USE DEF DequeInv
<1>1. /\ UNCHANGED <<top, bottom, pushed, t, a, claim>>
      /\ bottom \in Int /\ top \in Nat /\ pushed \in Nat /\ pc[Owner] = "pop_fit"
      /\ t[Owner] \in Int /\ t \in [Actors -> Int] /\ claim \in [Actors -> Values \cup {NoItem}]
  BY DEF popFit, DequeTypes, At, Actors, history
<1>2. size(buffer) \in Nat \ {0}
  <2>1. buffer \in 0 .. buffer
    BY BufferFacts
  <2> QED
    BY <2>1, BufferFacts
<1>3. PICK l \in {"idle", "pop_reclaim"} : Goto(Owner, l)
  BY DEF popFit, StartReclaim
<1>4. l \in OwnerLabels
  BY <1>3 DEF OwnerLabels, ReclaimLabels
<1>5. pc'[Owner] = l
  BY <1>3, <1>4, OwnerMoves
<1>6. Bottom = bottom /\ Bottom' = bottom
  BY <1>1, <1>3, <1>5 DEF Bottom
<1>7. t[Owner] <= top /\ top <= bottom /\ bottom - top < size(buffer)
  BY <1>1, <1>6 DEF RoomInv, At
<1>8. CASE Sparse
  <2>1. PICK n \in Nat : n = size(buffer) \div 2
    BY <1>2
  <2>2. n # 0 /\ bottom + 1 - t[Owner] <= n
    BY <1>1, <1>2, <1>8, <2>1, ChaseLevAssumption DEF Sparse
  <2>3. resize(bottom + 1, t[Owner], n)
    BY <1>8, <2>1 DEF popFit
  <2>4. DequeTypes' /\ ThiefInv' /\ size(buffer)' = n /\ Kept
    BY <1>1, <1>3, <1>4, <1>6, <1>7, <2>2, <2>3, ResizeKeeps
  <2>5. RoomInv'
    BY <1>1, <1>2, <1>3, <1>5, <1>6, <1>7, <2>2, <2>4 DEF RoomInv, At
  <2> QED
    BY <2>4, <2>5
<1>9. CASE ~Sparse
  <2>1. buffers' = buffers
    BY <1>9 DEF popFit
  <2>2. DequeTypes' /\ ThiefInv'
    BY <1>1, <1>3, <1>4, <1>6, <2>1, OwnerKeeps
  <2>3. size(buffer)' = size(buffer)
    BY <2>1, SameBuffers
  <2>4. RoomInv'
    BY <1>1, <1>2, <1>3, <1>5, <1>6, <1>7, <2>3 DEF RoomInv, At
  <2>5. Kept
    BY <1>1, <1>6, <2>1, SameBuffers DEF Kept
  <2> QED
    BY <2>2, <2>4, <2>5
<1> QED
  BY <1>8, <1>9

\* The place that is left unused is the one that a push writes next: the items
\* and the one that was stolen last are elsewhere.
LEMMA PushPuts ==
  ASSUME DequeInv, pushPut
  PROVE  DequeInv' /\ Kept
<1> USE DEF DequeInv
<1>1. /\ UNCHANGED <<top, bottom, pushed, t, a, claim>>
      /\ bottom \in Int /\ top \in Nat /\ pushed \in Nat /\ pc[Owner] = "push_put"
      /\ t[Owner] \in Int /\ Goto(Owner, "push_bottom") /\ "push_bottom" \in OwnerLabels
  BY DEF pushPut, DequeTypes, At, Actors, history, OwnerLabels
<1>2. buffer \in Nat /\ size(buffer) \in Nat \ {0}
  <2>1. buffer \in 0 .. buffer
    BY BufferFacts
  <2> QED
    BY <2>1, BufferFacts
<1>3. /\ DOMAIN pc' = Actors /\ pc'[Owner] = "push_bottom"
      /\ \A s \in Stealers : pc'[s] = pc[s]
  BY <1>1, OwnerMoves
<1>4. Bottom = bottom /\ Bottom' = bottom
  BY <1>1, <1>3 DEF Bottom
<1>5. /\ t[Owner] <= top /\ pushed < MaxItems /\ bottom + 1 - t[Owner] < size(buffer)
      /\ top <= bottom
  BY <1>1, <1>4 DEF RoomInv, At
<1>6. /\ buffers' \in Seq(BufferType) /\ Len(buffers') = Len(buffers)
      /\ \A i \in 0 .. buffer : size(i)' = size(i)
      /\ get(buffer, bottom)' = pushed + 1
      /\ \A i \in 0 .. buffer, j \in Int :
           i # buffer \/ j % size(i) # bottom % size(i) => get(i, j)' = get(i, j)
  BY <1>5, PutFacts
<1>7. buffer' = buffer
  BY <1>6 DEF buffer
<1>8. size(buffer)' = size(buffer)
  <2>1. PICK i \in 0 .. buffer : i = buffer
    BY <1>2
  <2> QED
    BY <1>6, <1>7, <2>1 DEF size
<1>9. DequeTypes'
  BY <1>1, <1>3, <1>6 DEF DequeTypes
<1>10. ASSUME NEW k \in Int, top - 1 <= k, k < bottom
       PROVE  /\ \A i \in 0 .. buffer : get(i, k)' = get(i, k)
              /\ get(buffer, k)' = get(buffer, k)
  <2>1. k % size(buffer) # bottom % size(buffer)
    <3>1. bottom - k < size(buffer)
      BY <1>1, <1>2, <1>5, <1>10
    <3> QED
      BY <1>1, <1>2, <1>10, <3>1, DifferentPlaces
  <2>2. \A i \in 0 .. buffer : get(i, k)' = get(i, k)
    BY <1>6, <2>1
  <2>3. PICK i \in 0 .. buffer : i = buffer
    BY <1>2
  <2>4. get(buffer, k)' = get(i, k)'
    BY <1>7, <2>3 DEF get, size
  <2> QED
    BY <2>2, <2>3, <2>4
<1>11. ThiefInv'
  <2>1. \A k \in Int :
           /\ (k = top /\ k < Bottom) \/ k = top - 1 => \A i \in 0 .. buffer : get(i, k)' = get(i, k)
           /\ k = top /\ k < Bottom => get(buffer, k)' = get(buffer, k)
    BY <1>1, <1>4, <1>5, <1>10
  <2> QED
    BY <1>1, <1>2, <1>3, <1>4, <1>7, <1>9, <2>1, ThievesKept
<1>12. RoomInv'
  <2>1. get(buffer, bottom)' = pushed' + 1
    BY <1>1, <1>6
  <2> QED
    BY <1>1, <1>2, <1>3, <1>4, <1>5, <1>8, <2>1 DEF RoomInv, At
<1>13. Kept
  BY <1>1, <1>4, <1>5, <1>10 DEF Kept
<1> QED
  BY <1>9, <1>11, <1>12, <1>13

LEMMA DequeReclaims ==
  ASSUME DequeInv, reclaimIdle \/ reclaimId \/ reclaimDelete
  PROVE  DequeInv' /\ Kept
<1> USE DEF DequeInv
<1>1. /\ UNCHANGED <<top, bottom, pushed, buffers, t, a, claim>>
      /\ bottom \in Int /\ top \in Nat /\ pushed \in Nat
      /\ t[Owner] \in Int /\ t \in [Actors -> Int] /\ claim \in [Actors -> Values \cup {NoItem}]
  BY DEF reclaimIdle, reclaimId, reclaimDelete, DequeTypes, Actors, history, deque
<1>2. CASE UNCHANGED pc
  BY <1>1, <1>2, DequeSame
<1>3. CASE ~UNCHANGED pc
  <2>1. PICK l \in {"push_id", "pop_id", "push_reclaim", "pop_reclaim", "push_put", "idle"} :
          /\ Goto(Owner, l)
          /\ l \in {"push_id", "push_reclaim", "push_put"} => pc[Owner] \in {"push_id", "push_reclaim"}
          /\ pc[Owner] \in ReclaimLabels
    BY <1>3 DEF reclaimIdle, reclaimId, reclaimDelete, Reclaiming, At, ReclaimLabels
  <2>2. l \in OwnerLabels
    BY <2>1 DEF OwnerLabels, ReclaimLabels
  <2>3. pc'[Owner] = l
    BY <2>1, <2>2, OwnerMoves
  <2>4. Bottom = bottom /\ Bottom' = bottom
    BY <1>1, <2>1, <2>3 DEF Bottom, ReclaimLabels
  <2>5. DequeTypes' /\ ThiefInv'
    BY <1>1, <2>1, <2>2, <2>4, OwnerKeeps
  <2>6. size(buffer)' = size(buffer)
    BY <1>1, SameBuffers
  <2>7. RoomInv'
    BY <1>1, <2>1, <2>3, <2>4, <2>6 DEF RoomInv, At
  <2>8. Kept
    BY <1>1, <2>4, SameBuffers DEF Kept
  <2> QED
    BY <2>5, <2>7, <2>8
<1> QED
  BY <1>2, <1>3
-----------------------------------------------------------------------------
(***************************************************************************)
(* The thieves, and the items.                                             *)
(***************************************************************************)
\* What a step of a thief has to respect.
LEMMA ThiefMoves ==
  ASSUME DequeInv, NEW s \in Stealers, NEW l, Goto(s, l), UNCHANGED <<bottom, pushed, buffers>>,
         top' = top \/ (top' = top + 1 /\ top < Bottom),
         t' \in [Actors -> Int], \A x \in Actors \ {s} : t'[x] = t[x],
         a' \in [Stealers -> Nat], \A u \in Stealers \ {s} : a'[u] = a[u],
         claim' \in [Actors -> Values \cup {NoItem}], \A u \in Stealers \ {s} : claim'[u] = claim[u],
         l \in {"steal_bottom", "steal_buffer", "steal_cas", "steal_get"} => t'[s] \in Nat /\ t'[s] <= top',
         l \in {"steal_buffer", "steal_cas"} /\ t'[s] = top' => t'[s] < Bottom,
         l \in {"steal_cas", "steal_get"} => a'[s] <= buffer,
         l = "steal_cas" /\ t'[s] = top' => get(a'[s], t'[s]) = get(buffer, t'[s]),
         l = "steal_get" => t'[s] < top' /\ (t'[s] + 1 = top' => get(a'[s], t'[s]) = claim'[s])
  PROVE  DequeInv'
<1> USE DEF DequeInv
<1>1. /\ DOMAIN pc' = Actors /\ pc'[Owner] = pc[Owner] /\ pc'[s] = l
      /\ \A u \in Stealers \ {s} : pc'[u] = pc[u]
      /\ s # Owner /\ t'[Owner] = t[Owner] /\ t[Owner] \in Int
      /\ top \in Nat /\ bottom \in Int /\ pushed \in Nat
  BY ChaseLevAssumption DEF DequeTypes, Goto, Actors
<1>2. buffer' = buffer /\ buffer \in Nat /\ size(buffer)' = size(buffer) /\ size(buffer) \in Nat
  <2>1. buffer \in 0 .. buffer
    BY BufferFacts
  <2> QED
    BY <2>1, SameBuffers, BufferFacts
<1>3. Bottom' = Bottom /\ Bottom \in Int
  BY <1>1 DEF Bottom
<1>4. DequeTypes'
  BY <1>1 DEF DequeTypes
<1>5. RoomInv'
  <2>1. At(Owner, "push_bottom") => get(buffer, bottom)' = get(buffer, bottom)
    BY <1>1, SameBuffers
  <2> QED
    BY <1>1, <1>2, <1>3, <2>1 DEF RoomInv, At
<1>6. ASSUME NEW u \in Stealers
      PROVE  /\ pc'[u] \in {"steal_bottom", "steal_buffer", "steal_cas", "steal_get"} =>
                  t'[u] \in Nat /\ t'[u] <= top'
             /\ pc'[u] \in {"steal_buffer", "steal_cas"} /\ t'[u] = top' => t'[u] < Bottom'
             /\ Stealing(u)' => a'[u] <= buffer'
             /\ pc'[u] = "steal_cas" /\ t'[u] = top' => get(a[u], t[u])' = get(buffer, t[u])'
             /\ pc'[u] = "steal_get" => t'[u] < top' /\ (t'[u] + 1 = top' => get(a[u], t[u])' = claim'[u])
  <2>1. get(a[u], t[u])' = get(a'[u], t'[u]) /\ get(buffer, t[u])' = get(buffer, t'[u])
    BY <1>2 DEF get, size
  <2>2. CASE u = s
    BY <1>1, <1>2, <1>3, <2>1, <2>2 DEF Stealing
  <2>3. CASE u # s
    <3>1. pc'[u] = pc[u] /\ t'[u] = t[u] /\ a'[u] = a[u] /\ claim'[u] = claim[u] /\ t[u] \in Int
      BY <1>1, <2>3 DEF Actors, DequeTypes
    <3>2. ASSUME pc[u] \in {"steal_buffer", "steal_cas"}, t[u] = top' PROVE top' = top
      BY <1>1, <3>2 DEF ThiefInv
    <3>3. ASSUME pc[u] = "steal_get", t[u] + 1 = top' PROVE top' = top
      BY <1>1, <3>1, <3>3 DEF ThiefInv, At
    <3> QED
      BY <1>1, <1>2, <1>3, <2>1, <3>1, <3>2, <3>3 DEF ThiefInv, Stealing, At
  <2> QED
    BY <2>2, <2>3
<1>7. ThiefInv'
  BY <1>6 DEF ThiefInv, At
<1> QED
  BY <1>4, <1>5, <1>7

LEMMA DequeThief ==
  ASSUME StoresInv, DequeInv, PendingInv, NEW s \in Stealers, Step(s)
  PROVE  DequeInv'
<1> USE DEF DequeInv
<1>1. /\ UNCHANGED <<bottom, pushed, buffers>> /\ s \in Actors /\ s # Owner
      /\ t \in [Actors -> Int] /\ a \in [Stealers -> Nat] /\ claim \in [Actors -> Values \cup {NoItem}]
      /\ top \in Nat /\ bottom \in Int
  BY ChaseLevAssumption DEF Step, register_thread, stealBegin, stealTop, stealBottom, stealBuffer,
     stealCas, stealGet, stealEnd, stealLast, stealId, deque, DequeTypes, Actors
<1>2. /\ pc[s] \in {"steal_bottom", "steal_buffer", "steal_cas", "steal_get"} => t[s] \in Nat /\ t[s] <= top
      /\ pc[s] \in {"steal_buffer", "steal_cas"} /\ t[s] = top => t[s] < Bottom
      /\ pc[s] = "steal_cas" => a[s] <= buffer
      /\ pc[s] = "steal_cas" /\ t[s] = top => get(a[s], t[s]) = get(buffer, t[s])
  BY DEF ThiefInv, Stealing, At
<1>3. buffer \in Nat /\ Bottom \in Int /\ bottom <= Bottom
  BY <1>1, BufferFacts DEF Bottom
<1> USE DEF At, deque, history
<1>4. CASE register_thread(s) \/ stealBegin(s) \/ stealEnd(s) \/ stealId(s) \/ stealGet(s)
  <2>1. PICK l \in {"idle", "steal_top", "steal_last", "steal_end"} : Goto(s, l) /\ UNCHANGED <<top, t, a, claim>>
    BY <1>4 DEF register_thread, stealBegin, stealEnd, stealId, stealGet
  <2> QED
    BY <1>1, <2>1, ThiefMoves
<1>5. CASE stealTop(s)
  <2>1. Goto(s, "steal_bottom") /\ t' = [t EXCEPT ![s] = top] /\ UNCHANGED <<top, a, claim>>
    BY <1>5 DEF stealTop
  <2>2. t' \in [Actors -> Int] /\ t'[s] = top /\ \A x \in Actors \ {s} : t'[x] = t[x]
    BY <1>1, <2>1
  <2> QED
    BY <1>1, <2>1, <2>2, ThiefMoves
<1>6. CASE stealBottom(s)
  <2>1. PICK l \in {"steal_buffer", "steal_end"} :
          Goto(s, l) /\ UNCHANGED <<top, t, a, claim>> /\ (l = "steal_buffer" => Seen(Owner).bottom > t[s])
    BY <1>6 DEF stealBottom
  <2>2. pc[s] = "steal_bottom" /\ t[s] \in Int
    BY <1>1, <1>6 DEF stealBottom
  <2>3. Seen(Owner).bottom \in Int /\ Seen(Owner).bottom <= Bottom
    BY OwnerStores DEF PendingInv, Seen
  <2> QED
    BY <1>1, <1>2, <1>3, <2>1, <2>2, <2>3, ThiefMoves
<1>7. CASE stealBuffer(s) \/ stealLast(s)
  <2>1. PICK k \in 0 .. buffer : k = Seen(Owner).buffer
    BY OwnerStores
  <2>2. PICK l \in {"steal_cas", "steal_id"} :
          /\ Goto(s, l) /\ a' = [a EXCEPT ![s] = k] /\ UNCHANGED <<top, t, claim>>
          /\ l = "steal_cas" => pc[s] = "steal_buffer"
    BY <1>7, <2>1 DEF stealBuffer, stealLast
  <2>3. a' \in [Stealers -> Nat] /\ a'[s] = k /\ \A u \in Stealers \ {s} : a'[u] = a[u]
    BY <1>1, <1>3, <2>2
  <2>4. pc[s] = "steal_buffer" /\ t[s] = top => get(k, t[s]) = get(buffer, t[s])
    BY <2>1, OwnerStores DEF PendingInv, Seen
  <2> QED
    BY <1>1, <1>2, <1>3, <2>1, <2>2, <2>3, <2>4, ThiefMoves
<1>8. CASE stealCas(s)
  <2>1. CASE top = t[s]
    <3>1. /\ top' = top + 1 /\ claim' = [claim EXCEPT ![s] = get(buffer, top)] /\ Goto(s, "steal_get")
          /\ pc[s] = "steal_cas" /\ UNCHANGED <<t, a>>
      BY <1>8, <2>1 DEF stealCas
    <3>2. get(buffer, top) \in Values
      <4>1. buffer \in 0 .. buffer
        BY <1>3
      <4> QED
        BY <1>1, <4>1, BufferFacts
    <3>3. /\ claim' \in [Actors -> Values \cup {NoItem}] /\ claim'[s] = get(buffer, top)
          /\ \A u \in Stealers \ {s} : claim'[u] = claim[u]
      BY <1>1, <3>1, <3>2 DEF Actors
    <3>4. top < Bottom /\ a[s] <= buffer /\ get(a[s], t[s]) = claim'[s]
      BY <1>2, <2>1, <3>1, <3>3
    <3> QED
      BY <1>1, <2>1, <3>1, <3>3, <3>4, ThiefMoves
  <2>2. CASE top # t[s]
    <3>1. Goto(s, "steal_end") /\ UNCHANGED <<top, t, a, claim>>
      BY <1>8, <2>2 DEF stealCas
    <3> QED
      BY <1>1, <3>1, ThiefMoves
  <2> QED
    BY <2>1, <2>2
<1> QED
  BY <1>4, <1>5, <1>6, <1>7, <1>8 DEF Step

LEMMA InitDeque == Init => DequeInv
<1> SUFFICES ASSUME Init PROVE DequeInv
  OBVIOUS
<1>1. PICK new : new = NewBuffer(initial_size) /\ buffers = <<new>>
  BY DEF Init
<1>2. new \in BufferType /\ new.size = initial_size /\ initial_size \in Nat \ {0}
  <2>1. new = [size |-> initial_size, segment |-> [k \in 0 .. initial_size - 1 |-> Garbage]]
    BY <1>1 DEF NewBuffer
  <2>2. initial_size \in Nat \ {0}
    BY ChaseLevAssumption
  <2>3. [k \in 0 .. initial_size - 1 |-> Garbage] \in [0 .. initial_size - 1 -> Values]
    BY DEF Values
  <2>4. new \in [size : {initial_size}, segment : [0 .. initial_size - 1 -> Values]]
    BY <2>1, <2>3
  <2> QED
    BY <2>1, <2>2, <2>4 DEF BufferType
<1>3. buffers \in Seq(BufferType) /\ Len(buffers) = 1 /\ buffer = 0 /\ size(buffer) = initial_size
  BY <1>1, <1>2 DEF buffer, size
<1>4. /\ pc[Owner] = "idle" /\ DOMAIN pc = Actors /\ t \in [Actors -> Int] /\ t[Owner] = 0
      /\ \A s \in Stealers : pc[s] = "unregistered"
      /\ a \in [Stealers -> Nat] /\ claim \in [Actors -> Values \cup {NoItem}]
      /\ top = 0 /\ bottom = 0 /\ pushed = 0
  BY ChaseLevAssumption DEF Init, Actors
<1>5. Bottom = 0
  BY <1>4 DEF Bottom
<1>6. DequeTypes
  BY <1>3, <1>4 DEF DequeTypes, OwnerLabels
<1>7. RoomInv
  BY <1>2, <1>3, <1>4, <1>5 DEF RoomInv, At
<1>8. ThiefInv
  BY <1>4 DEF ThiefInv, Stealing, At
<1> QED
  BY <1>6, <1>7, <1>8 DEF DequeInv

LEMMA NextDeque == StoresInv /\ DequeInv /\ PendingInv /\ [Next]_vars => DequeInv'
<1> SUFFICES ASSUME StoresInv, DequeInv, PendingInv, [Next]_vars PROVE DequeInv'
  OBVIOUS
<1>1. CASE OwnerStep
  BY <1>1, OwnerLocal, PushFits, PushPuts, PopDecides, PopRaces, PopFits, DequeReclaims DEF OwnerStep
<1>2. ASSUME NEW s \in Stealers, Step(s) PROVE DequeInv'
  BY <1>2, DequeThief
<1>3. CASE UNCHANGED vars \/ \E x \in Actors : drain(x)
  <2>1. UNCHANGED <<top, bottom, pushed, buffers, t, a, pc, claim>>
    BY <1>3 DEF vars, deque, history, drain
  <2> QED
    BY <2>1, DequeSame
<1> QED
  BY <1>1, <1>2, <1>3 DEF Next
-----------------------------------------------------------------------------
(***************************************************************************)
(* What the thieves see of the owner.                                      *)
(***************************************************************************)
LEMMA InitPending == Init => PendingInv
<1> SUFFICES ASSUME Init PROVE PendingInv
  OBVIOUS
<1>1. stores[Owner] = <<[bottom |-> 0, buffer |-> 0]>> /\ Len(buffers) = 1 /\ pc[Owner] = "idle"
  BY DEF Init, Actors
<1>2. Bottom = 0 /\ buffer = 0 /\ top = 0 /\ \A s \in Stealers : pc[s] = "unregistered"
  BY <1>1, ChaseLevAssumption DEF Init, Bottom, buffer, Actors
<1> QED
  BY <1>1, <1>2 DEF PendingInv, At

\* No step disturbs a place from top up to bottom, in whatever buffer.
LEMMA PlacesKept ==
  ASSUME StoresInv, DequeInv, [Next]_vars
  PROVE  /\ buffer' \in Nat /\ buffer <= buffer'
         /\ \A j \in Int : top <= j /\ j < Bottom =>
              /\ \A i \in 0 .. buffer : get(i, j)' = get(i, j)
              /\ get(buffer, j)' = get(buffer, j)
<1>1. /\ buffer \in Nat /\ Len(buffers) \in Nat /\ top \in Nat /\ bottom \in Int /\ Bottom \in Int
  BY OwnerStores, LenNat DEF DequeInv, DequeTypes, StoresInv, Bottom
<1>2. CASE buffers' = buffers
  <2>1. buffer' = buffer /\ \A j \in Int : get(buffer, j)' = get(buffer, j) /\ \A i \in Int : get(i, j)' = get(i, j)
    BY <1>2, SameBuffers
  <2> QED
    BY <1>1, <2>1
<1>3. ASSUME NEW hi \in Int, NEW lo \in Int, NEW n \in Nat \ {0}, hi - lo <= n, resize(hi, lo, n),
             lo <= top, Bottom <= hi
      PROVE  /\ buffer' \in Nat /\ buffer <= buffer'
             /\ \A j \in Int : top <= j /\ j < Bottom =>
                  /\ \A i \in 0 .. buffer : get(i, j)' = get(i, j)
                  /\ get(buffer, j)' = get(buffer, j)
  <2>1. /\ Len(buffers') = Len(buffers) + 1
        /\ \A i \in 0 .. buffer : \A j \in Int : get(i, j)' = get(i, j)
        /\ \A j \in lo .. hi - 1 : get(buffer, j)' = get(buffer, j)
    BY <1>3, ResizeFacts DEF DequeInv
  <2>2. buffer' = buffer + 1
    BY <1>1, <2>1 DEF buffer
  <2>3. \A j \in Int : top <= j /\ j < Bottom => j \in lo .. hi - 1
    BY <1>1, <1>3
  <2> QED
    BY <1>1, <2>1, <2>2, <2>3
<1>4. size(buffer) \in Nat \ {0} /\ t[Owner] \in Int
  <2>1. buffer \in 0 .. buffer
    BY <1>1
  <2> QED
    BY <2>1, BufferFacts DEF DequeInv, DequeTypes, Actors
<1>5. CASE pushFit
  <2>1. pc[Owner] = "push_fit"
    BY <1>5 DEF pushFit, At
  <2>2. t[Owner] <= top /\ bottom - t[Owner] < size(buffer) /\ Bottom = bottom
    BY <2>1 DEF DequeInv, RoomInv, At, Bottom
  <2>3. CASE buffers' = buffers
    BY <1>2, <2>3
  <2>4. CASE resize(bottom, t[Owner], 2 * size(buffer))
    <3>1. 2 * size(buffer) \in Nat \ {0} /\ bottom - t[Owner] <= 2 * size(buffer)
      BY <1>1, <1>4, <2>2
    <3> QED
      BY <1>1, <1>3, <1>4, <2>2, <2>4, <3>1
  <2> QED
    BY <1>5, <2>3, <2>4 DEF pushFit
<1>6. CASE popFit
  <2>1. pc[Owner] = "pop_fit"
    BY <1>6 DEF popFit, At
  <2>2. t[Owner] <= top /\ Bottom = bottom
    BY <2>1 DEF DequeInv, RoomInv, At, Bottom
  <2>3. CASE buffers' = buffers
    BY <1>2, <2>3
  <2>4. CASE Sparse /\ resize(bottom + 1, t[Owner], size(buffer) \div 2)
    <3>1. PICK n \in Nat : n = size(buffer) \div 2
      BY <1>4
    <3>2. n # 0 /\ bottom + 1 - t[Owner] <= n
      BY <1>1, <1>4, <2>4, <3>1, ChaseLevAssumption DEF Sparse
    <3>3. bottom + 1 \in Int /\ Bottom <= bottom + 1 /\ n \in Nat \ {0} /\ resize(bottom + 1, t[Owner], n)
      BY <1>1, <2>2, <2>4, <3>1, <3>2
    <3> QED
      BY <1>1, <1>3, <1>4, <2>2, <3>2, <3>3
  <2> QED
    BY <1>6, <2>3, <2>4 DEF popFit
<1>7. CASE pushPut
  <2>1. pc[Owner] = "push_put"
    BY <1>7 DEF pushPut, At
  <2>2. /\ t[Owner] <= top /\ pushed < MaxItems /\ bottom + 1 - t[Owner] < size(buffer) /\ Bottom = bottom
    BY <2>1 DEF DequeInv, RoomInv, At, Bottom
  <2>3. /\ Len(buffers') = Len(buffers)
        /\ \A i \in 0 .. buffer, j \in Int :
             i # buffer \/ j % size(i) # bottom % size(i) => get(i, j)' = get(i, j)
    BY <1>7, <2>2, PutFacts DEF DequeInv
  <2>4. buffer' = buffer
    BY <2>3 DEF buffer
  <2>5. ASSUME NEW j \in Int, top <= j, j < Bottom
        PROVE  /\ \A i \in 0 .. buffer : get(i, j)' = get(i, j)
               /\ get(buffer, j)' = get(buffer, j)
    <3>1. j < bottom /\ bottom - j < size(buffer)
      BY <1>1, <1>4, <2>2, <2>5
    <3>2. j % size(buffer) # bottom % size(buffer)
      BY <1>1, <1>4, <3>1, DifferentPlaces
    <3>3. \A i \in 0 .. buffer : get(i, j)' = get(i, j)
      BY <2>3, <3>2
    <3>4. PICK i \in 0 .. buffer : i = buffer
      BY <1>1
    <3>5. get(buffer, j)' = get(i, j)'
      BY <2>4, <3>4 DEF get, size
    <3> QED
      BY <3>3, <3>4, <3>5
  <2> QED
    BY <1>1, <2>4, <2>5
<1>8. buffers' = buffers \/ pushFit \/ popFit \/ pushPut
  <2>1. ASSUME NEW s \in Stealers, Step(s) PROVE buffers' = buffers
    BY <2>1, StealerChanges
  <2>2. OwnerStep => buffers' = buffers \/ pushFit \/ popFit \/ pushPut
    BY DEF OwnerStep, pushTop, pushBottom, popBottom, popTop, popCas, popRestore,
       reclaimIdle, reclaimId, reclaimDelete, deque
  <2>3. UNCHANGED vars \/ (\E x \in Actors : drain(x)) => buffers' = buffers
    BY DEF vars, drain, deque
  <2> QED
    BY <2>1, <2>2, <2>3 DEF Next
<1> QED
  BY <1>2, <1>5, <1>6, <1>7, <1>8

\* bottom falls where the owner takes an item without a CAS, when all see it.
LEMMA BottomFalls ==
  ASSUME StoresInv, DequeInv, [Next]_vars
  PROVE  /\ top' \in Nat /\ top <= top' /\ bottom' \in Int /\ Bottom' \in Int /\ bottom' <= Bottom'
         /\ Bottom <= Bottom' \/ (Fenced(Owner) /\ stores' = stores /\ bottom' = bottom)
<1>1. top \in Nat /\ bottom \in Int /\ DequeTypes
  BY DEF DequeInv, DequeTypes
<1>2. bottom' \in Int
  BY NextStores DEF StoresInv
<1>3. Bottom' \in Int /\ bottom' <= Bottom' /\ Bottom' \in {bottom', bottom' + 1}
  <2>1. Bottom' = bottom' \/ Bottom' = bottom' + 1
    BY DEF Bottom
  <2> QED
    BY <1>2, <2>1
<1>4. top' \in {top, top + 1}
  <2>1. OwnerStep => top' \in {top, top + 1}
    BY DEF OwnerStep, pushTop, pushFit, pushPut, pushBottom, popBottom, popTop, popCas, popRestore, popFit,
       reclaimIdle, reclaimId, reclaimDelete, deque
  <2>2. ASSUME NEW s \in Stealers, Step(s) PROVE top' \in {top, top + 1}
    BY <2>2 DEF Step, register_thread, stealBegin, stealTop, stealBottom, stealBuffer, stealCas, stealGet,
       stealEnd, stealLast, stealId, deque
  <2>3. UNCHANGED vars \/ (\E x \in Actors : drain(x)) => top' = top
    BY DEF vars, drain, deque
  <2> QED
    BY <2>1, <2>2, <2>3 DEF Next
<1>5. Bottom \in Int
  BY <1>1 DEF Bottom
<1>6. ASSUME UNCHANGED <<bottom, pc>> PROVE Bottom' = Bottom
  BY <1>6 DEF Bottom
<1>7. ASSUME NEW s \in Stealers, Step(s) PROVE Bottom' = Bottom
  <2>1. bottom' = bottom /\ \E l : Goto(s, l)
    BY <1>7 DEF Step, register_thread, stealBegin, stealTop, stealBottom, stealBuffer, stealCas, stealGet,
       stealEnd, stealLast, stealId, deque
  <2>2. pc'[Owner] = pc[Owner]
    BY <1>1, <2>1, ChaseLevAssumption DEF Goto, DequeTypes, Actors
  <2> QED
    BY <2>1, <2>2 DEF Bottom
<1>8. ASSUME OwnerStep
      PROVE  Bottom <= Bottom' \/ (Fenced(Owner) /\ stores' = stores /\ bottom' = bottom)
  <2> USE <1>5
  <2>1. CASE popTop
    BY <2>1 DEF popTop, deque
  <2>2. CASE popCas
    <3>1. pc[Owner] = "pop_cas" /\ Goto(Owner, "pop_restore") /\ bottom' = bottom /\ "pop_restore" \in OwnerLabels
      BY <2>2 DEF popCas, At, OwnerLabels
    <3>2. pc'[Owner] = "pop_restore"
      BY <1>1, <3>1, OwnerMoves
    <3> QED
      BY <1>1, <3>1, <3>2 DEF Bottom
  <2>3. CASE pushTop \/ popBottom \/ popRestore
    BY <1>1, <2>3, OwnerSilent DEF Kept, Bottom
  <2>4. CASE pushFit \/ popFit \/ pushPut \/ reclaimIdle \/ reclaimId \/ reclaimDelete
    BY <1>1, <2>4, PushFits, PopFits, PushPuts, DequeReclaims DEF Kept, Bottom
  <2>5. CASE pushBottom
    <3>1. pc[Owner] = "push_bottom" /\ bottom' = bottom + 1
      BY <2>5 DEF pushBottom, StoreBottom, At
    <3> QED
      BY <1>1, <1>3, <3>1 DEF Bottom
  <2> QED
    BY <1>8, <2>1, <2>2, <2>3, <2>4, <2>5 DEF OwnerStep
<1>9. UNCHANGED vars \/ (\E x \in Actors : drain(x)) => UNCHANGED <<bottom, pc>>
  BY DEF vars, drain, deque
<1>10. Bottom <= Bottom' \/ (Fenced(Owner) /\ stores' = stores /\ bottom' = bottom)
  BY <1>3, <1>6, <1>7, <1>8, <1>9, <1>5 DEF Next
<1> QED
  BY <1>1, <1>2, <1>3, <1>4, <1>10

\* What is pending was so before, or has just been stored.
LEMMA PendingChanges ==
  ASSUME StoresInv, [Next]_vars
  PROVE  \E n \in {0, 1} : \A k \in 1 .. Len(stores'[Owner]) :
           \/ k + n \in 1 .. Len(stores[Owner]) /\ stores'[Owner][k] = stores[Owner][k + n]
           \/ /\ k = Len(stores[Owner]) + 1 /\ n = 0
              /\ stores'[Owner][k] = [bottom |-> bottom', buffer |-> buffer']
<1>1. Owner \in Actors /\ Len(stores[Owner]) \in Nat /\ stores[Owner] \in Seq(OwnerState)
      /\ Len(stores[Owner]) >= 1 /\ DOMAIN stores = Actors
  BY OwnerStores DEF StoresInv
<1>2. CASE stores'[Owner] = stores[Owner]
  BY <1>1, <1>2
<1>3. CASE drain(Owner)
  <2>1. /\ Len(stores'[Owner]) = Len(stores[Owner]) - 1
        /\ \A i \in 1 .. Len(stores'[Owner]) : stores'[Owner][i] = stores[Owner][i + 1]
    BY <1>1, <1>3, DrainFacts
  <2> QED
    BY <1>1, <2>1
<1>4. CASE Store(Owner, [bottom |-> bottom', buffer |-> buffer'])
  <2>1. StoresInv'
    BY NextStores
  <2>2. bottom' \in Int /\ buffer' \in Nat
    <3>1. Len(buffers') \in Nat /\ Len(buffers') >= 1
      <4>1. \A b : (\E S : b \in Seq(S)) => Len(b) \in Nat
        OBVIOUS
      <4> QED
        BY <2>1, <4>1 DEF StoresInv, BuffersOK
    <3> QED
      BY <2>1, <3>1 DEF StoresInv, buffer
  <2>3. PICK r \in OwnerState : r = [bottom |-> bottom', buffer |-> buffer']
    BY <2>2 DEF OwnerState
  <2>4. /\ Len(stores'[Owner]) = Len(stores[Owner]) + 1
        /\ stores'[Owner][Len(stores[Owner]) + 1] = r
        /\ \A i \in 1 .. Len(stores[Owner]) : stores'[Owner][i] = stores[Owner][i]
    BY <1>1, <1>4, <2>3, StoreFacts
  <2>5. ASSUME NEW k \in 1 .. Len(stores'[Owner])
        PROVE  \/ k + 0 \in 1 .. Len(stores[Owner]) /\ stores'[Owner][k] = stores[Owner][k + 0]
               \/ k = Len(stores[Owner]) + 1 /\ stores'[Owner][k] = r
    BY <1>1, <2>4
  <2> QED
    BY <2>3, <2>5
<1>5. CASE OwnerStep
  BY <1>2, <1>4, <1>5, OwnerChanges
<1>6. ASSUME NEW s \in Stealers, Step(s) PROVE stores'[Owner] = stores[Owner]
  <2>1. stores' = stores \/ \E r : Store(s, r)
    BY <1>6, StealerChanges
  <2> QED
    BY <1>1, <2>1, StealerStores DEF Store
<1>7. ASSUME NEW x \in Actors, drain(x) PROVE x = Owner \/ stores'[Owner] = stores[Owner]
  BY <1>1, <1>7 DEF drain
<1>8. UNCHANGED vars => stores' = stores
  BY DEF vars
<1> QED
  BY <1>2, <1>3, <1>5, <1>6, <1>7, <1>8 DEF Next

LEMMA NextPending == StoresInv /\ DequeInv /\ PendingInv /\ [Next]_vars => PendingInv'
<1> SUFFICES ASSUME StoresInv, DequeInv, PendingInv, [Next]_vars PROVE PendingInv'
  OBVIOUS
<1>1. DequeInv' /\ StoresInv'
  BY NextDeque, NextStores
<1>2. /\ buffer \in Nat /\ buffer' \in Nat /\ buffer <= buffer'
      /\ \A j \in Int : top <= j /\ j < Bottom =>
           /\ \A i \in 0 .. buffer : get(i, j)' = get(i, j)
           /\ get(buffer, j)' = get(buffer, j)
  BY OwnerStores, PlacesKept
<1>3. /\ top \in Nat /\ top' \in Nat /\ top <= top' /\ Bottom \in Int /\ Bottom' \in Int
      /\ bottom' \in Int /\ bottom' <= Bottom'
      /\ Bottom <= Bottom' \/ (Fenced(Owner) /\ stores' = stores /\ bottom' = bottom)
  BY BottomFalls DEF DequeInv, DequeTypes, Bottom
<1>4. /\ Len(stores[Owner]) \in Nat
      /\ \A i \in 1 .. Len(stores[Owner]) :
           stores[Owner][i].bottom \in Int /\ stores[Owner][i].buffer \in 0 .. buffer /\ stores[Owner][i].bottom <= Bottom
  BY OwnerStores DEF PendingInv
<1>5. PICK n \in {0, 1} : \A k \in 1 .. Len(stores'[Owner]) :
        \/ k + n \in 1 .. Len(stores[Owner]) /\ stores'[Owner][k] = stores[Owner][k + n]
        \/ k = Len(stores[Owner]) + 1 /\ n = 0 /\ stores'[Owner][k] = [bottom |-> bottom', buffer |-> buffer']
  BY PendingChanges
<1>6. Len(stores'[Owner]) \in Nat
  BY <1>1 DEF StoresInv
<1>7. \A k \in 1 .. Len(stores'[Owner]) : stores'[Owner][k].bottom <= Bottom'
  <2> SUFFICES ASSUME NEW k \in 1 .. Len(stores'[Owner]) PROVE stores'[Owner][k].bottom <= Bottom'
    OBVIOUS
  <2>1. CASE Bottom <= Bottom'
    <3>1. ASSUME NEW i \in 1 .. Len(stores[Owner]), stores'[Owner][k] = stores[Owner][i]
          PROVE  stores'[Owner][k].bottom <= Bottom'
      BY <1>3, <1>4, <2>1, <3>1
    <3>2. ASSUME stores'[Owner][k] = [bottom |-> bottom', buffer |-> buffer']
          PROVE  stores'[Owner][k].bottom <= Bottom'
      BY <1>3, <3>2
    <3> QED
      BY <1>5, <3>1, <3>2
  <2>2. CASE Fenced(Owner) /\ stores' = stores /\ bottom' = bottom
    <3>1. k = 1 /\ stores'[Owner][k] = stores[Owner][Len(stores[Owner])]
      <4>1. Len(stores'[Owner]) = 1 /\ Len(stores[Owner]) = 1
        BY <2>2 DEF Fenced
      <4>2. k = 1
        BY <4>1
      <4> QED
        BY <2>2, <4>1, <4>2
    <3> QED
      BY <1>3, <2>2, <3>1 DEF StoresInv, Latest
  <2> QED
    BY <1>3, <2>1, <2>2
<1>8. ASSUME NEW k \in 1 .. Len(stores'[Owner]), NEW j \in Int, top <= j, j < Bottom,
             k + n \in 1 .. Len(stores[Owner]) => get(stores[Owner][k + n].buffer, j) = get(buffer, j)
      PROVE  get(stores[Owner][k].buffer, j)' = get(buffer, j)'
  <2>1. PICK b : b = stores'[Owner][k].buffer
    OBVIOUS
  <2>2. get(stores[Owner][k].buffer, j)' = get(b, j)'
    BY <2>1 DEF get, size
  <2>3. CASE k + n \in 1 .. Len(stores[Owner]) /\ stores'[Owner][k] = stores[Owner][k + n]
    <3>1. b \in 0 .. buffer /\ get(b, j) = get(buffer, j)
      BY <1>4, <1>8, <2>1, <2>3
    <3> QED
      BY <1>2, <1>8, <2>2, <3>1
  <2>4. CASE stores'[Owner][k].buffer = buffer'
    BY <2>4 DEF get, size
  <2> QED
    BY <1>5, <2>3, <2>4
<1>9. ASSUME NEW i \in 1 .. Len(stores'[Owner]), NEW k \in 1 .. Len(stores'[Owner]), NEW j \in Int,
             i <= k, top' <= j, j < stores'[Owner][i].bottom
      PROVE  get(stores[Owner][k].buffer, j)' = get(buffer, j)'
  <2>1. CASE i + n \in 1 .. Len(stores[Owner]) /\ stores'[Owner][i] = stores[Owner][i + n]
    <3>1. top <= j /\ j < Bottom /\ j < stores[Owner][i + n].bottom /\ i + n <= k + n
      BY <1>3, <1>4, <1>9, <2>1
    <3>2. k + n \in 1 .. Len(stores[Owner]) => get(stores[Owner][k + n].buffer, j) = get(buffer, j)
      BY <2>1, <3>1 DEF PendingInv
    <3> QED
      BY <1>8, <3>1, <3>2
  <2>2. CASE i = Len(stores[Owner]) + 1 /\ n = 0 /\ stores'[Owner][i] = [bottom |-> bottom', buffer |-> buffer']
    <3>1. k \notin 1 .. Len(stores[Owner])
      BY <1>4, <1>9, <2>2
    <3>2. stores'[Owner][k].buffer = buffer'
      BY <1>5, <2>2, <3>1
    <3> QED
      BY <3>2 DEF get, size
  <2> QED
    BY <1>5, <2>1, <2>2
<1>10. ASSUME NEW s \in Stealers, NEW k \in 1 .. Len(stores'[Owner]), pc'[s] = "steal_buffer", t'[s] = top'
       PROVE  get(stores[Owner][k].buffer, t[s])' = get(buffer, t[s])'
  <2>1. PICK j \in Int : j = t'[s]
    BY <1>3, <1>10
  <2>2. \/ pc[s] = "steal_buffer" /\ t[s] = j
        \/ stealBottom(s) /\ t[s] = j
    <3>1. DequeTypes
      BY DEF DequeInv
    <3>2. CASE OwnerStep
      <4>1. \E l \in OwnerLabels : Goto(Owner, l) \/ pc' = pc
        <5>1. {"idle", "push_fit", "push_put", "push_bottom", "pop_top", "pop_cas", "pop_restore", "pop_fit",
               "push_reclaim", "pop_reclaim", "push_id", "pop_id"} = OwnerLabels
          BY DEF OwnerLabels, ReclaimLabels
        <5> QED
          BY <3>2, <5>1 DEF OwnerStep, pushTop, pushFit, pushPut, pushBottom, popBottom, popTop, popCas, popRestore,
             popFit, reclaimIdle, reclaimId, reclaimDelete, StartReclaim
      <4>2. pc'[s] = pc[s]
        BY <3>1, <4>1, OwnerMoves
      <4>3. t' = t \/ t' = [t EXCEPT ![Owner] = top]
        BY <3>2 DEF OwnerStep, pushTop, pushFit, pushPut, pushBottom, popBottom, popTop, popCas, popRestore,
           popFit, reclaimIdle, reclaimId, reclaimDelete
      <4>4. t'[s] = t[s]
        BY <3>1, <4>3, ChaseLevAssumption DEF DequeTypes, Actors
      <4> QED
        BY <1>10, <2>1, <4>2, <4>4
    <3>3. ASSUME NEW u \in Stealers, Step(u) PROVE (pc[s] = "steal_buffer" /\ t[s] = j) \/ (stealBottom(s) /\ t[s] = j)
      <4>1. CASE u # s
        <5>1. (\E l : Goto(u, l)) /\ (t' = t \/ t' = [t EXCEPT ![u] = top])
          BY <3>3 DEF Step, register_thread, stealBegin, stealTop, stealBottom, stealBuffer, stealCas, stealGet,
             stealEnd, stealLast, stealId
        <5>2. pc'[s] = pc[s] /\ t'[s] = t[s]
          BY <3>1, <4>1, <5>1 DEF Goto, DequeTypes, Actors
        <5> QED
          BY <1>10, <2>1, <5>2
      <4>2. CASE u = s
        <5>1. \A l : Goto(s, l) => pc'[s] = l
          BY <3>1 DEF Goto, DequeTypes, Actors
        <5>2. stealBottom(s)
          BY <1>10, <3>3, <4>2, <5>1 DEF Step, register_thread, stealBegin, stealTop, stealBuffer, stealCas, stealGet,
             stealEnd, stealLast, stealId
        <5> QED
          BY <2>1, <5>2 DEF stealBottom
      <4> QED
        BY <4>1, <4>2
    <3>4. CASE UNCHANGED vars \/ \E x \in Actors : drain(x)
      BY <1>10, <2>1, <3>4 DEF vars, drain
    <3> QED
      BY <3>2, <3>3, <3>4 DEF Next
  <2>3. /\ top = j /\ j < Bottom
        /\ \A i \in 1 .. Len(stores[Owner]) : get(stores[Owner][i].buffer, j) = get(buffer, j)
    <3>1. CASE pc[s] = "steal_buffer" /\ t[s] = j
      <4>1. j <= top
        BY <3>1 DEF DequeInv, ThiefInv
      <4>2. top = j
        BY <1>3, <1>10, <2>1, <4>1
      <4> QED
        BY <3>1, <4>2 DEF DequeInv, ThiefInv, PendingInv, At
    <3>2. CASE stealBottom(s) /\ t[s] = j
      <4>1. /\ pc[s] = "steal_bottom" /\ top' = top
            /\ Goto(s, IF Seen(Owner).bottom > t[s] THEN "steal_buffer" ELSE "steal_end")
        BY <3>2 DEF stealBottom, At, deque
      <4>2. s \in DOMAIN pc
        BY DEF DequeInv, DequeTypes, Actors
      <4>3. Seen(Owner).bottom > j
        BY <1>10, <3>2, <4>1, <4>2 DEF Goto
      <4>4. 1 \in 1 .. Len(stores[Owner]) /\ stores[Owner][1].bottom > j /\ top = j
        BY <1>10, <2>1, <4>1, <4>3, OwnerStores DEF Seen
      <4>5. j < Bottom
        BY <1>3, <1>4, <4>4
      <4>6. \A i \in 1 .. Len(stores[Owner]) : get(stores[Owner][i].buffer, j) = get(buffer, j)
        <5> SUFFICES ASSUME NEW i \in 1 .. Len(stores[Owner]) PROVE get(stores[Owner][i].buffer, j) = get(buffer, j)
          OBVIOUS
        <5>1. 1 <= i /\ top <= j /\ j < stores[Owner][1].bottom
          BY <1>3, <1>4, <4>4
        <5> QED
          BY <4>4, <5>1 DEF PendingInv
      <4> QED
        BY <4>4, <4>5, <4>6
    <3> QED
      BY <2>2, <3>1, <3>2
  <2>4. get(stores[Owner][k].buffer, j)' = get(buffer, j)'
    <3>1. top <= j /\ j < Bottom
      BY <1>3, <2>3
    <3>2. k + n \in 1 .. Len(stores[Owner]) => get(stores[Owner][k + n].buffer, j) = get(buffer, j)
      BY <2>3
    <3> QED
      BY <1>8, <3>1, <3>2
  <2> QED
    BY <2>1, <2>4 DEF get, size
<1> QED
  BY <1>7, <1>9, <1>10 DEF PendingInv, At

\* The invariants about the items, together.
ItemsInv == StoresInv /\ DequeInv /\ PendingInv

LEMMA InitItems == Init => ItemsInv
  BY InitStores, InitDeque, InitPending DEF ItemsInv

LEMMA NextItems == ItemsInv /\ [Next]_vars => ItemsInv'
  BY NextStores, NextDeque, NextPending DEF ItemsInv

\* A thief that has won its CAS still finds its item in the buffer it has loaded,
\* however many pushes, resizes and failed steals come between: the place that a
\* push leaves unused is the one that it needs.
THEOREM ChaseLevSpare == Spec => []SparePlace
<1>1. ASSUME DequeInv PROVE SparePlace
  <2> SUFFICES ASSUME NEW s \in Stealers, At(s, "steal_get"), top = t[s] + 1 PROVE get(a[s], t[s]) = claim[s]
    BY DEF SparePlace
  <2> QED
    BY <1>1 DEF DequeInv, ThiefInv
<1> QED
  BY <1>1, InitItems, NextItems, PTL DEF Spec, ItemsInv

-----------------------------------------------------------------------------
(***************************************************************************)
(* The refinement: the deque as a window on the places of its buffer.      *)
(***************************************************************************)
Cells == [j \in Int |-> get(buffer, j)]
Window(f, lo, hi) == [k \in 1 .. hi - lo |-> f[lo + k - 1]]

LEMMA WindowFacts ==
  ASSUME NEW S, NEW f \in [Int -> S], NEW lo \in Int, NEW hi \in Int, lo <= hi
  PROVE  Window(f, lo, hi) \in Seq(S) /\ Len(Window(f, lo, hi)) = hi - lo
<1>1. hi - lo \in Nat
  OBVIOUS
<1>2. Window(f, lo, hi) \in [1 .. hi - lo -> S]
  BY <1>1 DEF Window
<1> QED
  BY <1>1, <1>2, LenProperties

LEMMA WindowSame ==
  ASSUME NEW S, NEW f \in [Int -> S], NEW g \in [Int -> S], NEW lo \in Int, NEW hi \in Int,
         \A j \in lo .. hi - 1 : f[j] = g[j]
  PROVE  Window(f, lo, hi) = Window(g, lo, hi)
<1>1. \A k \in 1 .. hi - lo : lo + k - 1 \in lo .. hi - 1
  OBVIOUS
<1>2. \A k \in 1 .. hi - lo : f[lo + k - 1] = g[lo + k - 1]
  BY <1>1
<1> QED
  BY <1>2 DEF Window

LEMMA WindowPush ==
  ASSUME NEW S, NEW f \in [Int -> S], NEW lo \in Int, NEW hi \in Int, lo <= hi
  PROVE  Window(f, lo, hi + 1) = Append(Window(f, lo, hi), f[hi])
<1> DEFINE v == Window(f, lo, hi)
           w == Window(f, lo, hi + 1)
<1>1. v \in Seq(S) /\ Len(v) = hi - lo /\ w \in Seq(S) /\ Len(w) = hi - lo + 1
  <2>1. PICK h \in Int : h = hi + 1
    OBVIOUS
  <2>2. Window(f, lo, h) \in Seq(S) /\ Len(Window(f, lo, h)) = h - lo
    <3>1. lo <= h
      BY <2>1
    <3> QED
      BY <3>1, WindowFacts, Zenon
  <2>3. v \in Seq(S) /\ Len(v) = hi - lo
    <3>1. lo <= hi
      OBVIOUS
    <3> QED
      BY <3>1, WindowFacts, Zenon
  <2>4. w = Window(f, lo, h)
    BY <2>1
  <2> QED
    BY <2>1, <2>2, <2>3, <2>4
<1>2. \A k \in 1 .. hi - lo : w[k] = v[k]
  BY DEF Window
<1>3. w[hi - lo + 1] = f[hi]
  BY DEF Window
<1> HIDE DEF v, w
<1>4. f[hi] \in S
  OBVIOUS
<1>5. /\ Append(v, f[hi]) \in Seq(S) /\ Len(Append(v, f[hi])) = hi - lo + 1
      /\ \A k \in 1 .. hi - lo : Append(v, f[hi])[k] = v[k]
      /\ Append(v, f[hi])[hi - lo + 1] = f[hi]
  BY <1>1, <1>4, AppendProperties
<1>6. \A k \in 1 .. Len(w) : w[k] = Append(v, f[hi])[k]
  <2> SUFFICES ASSUME NEW k \in 1 .. hi - lo + 1 PROVE w[k] = Append(v, f[hi])[k]
    BY <1>1
  <2>1. k \in 1 .. hi - lo \/ k = hi - lo + 1
    OBVIOUS
  <2> QED
    BY <1>2, <1>3, <1>5, <2>1
<1>7. w = Append(v, f[hi])
  BY <1>1, <1>5, <1>6, SeqEqual
<1> QED
  BY <1>7 DEF v, w

LEMMA WindowPop ==
  ASSUME NEW S, NEW f \in [Int -> S], NEW lo \in Int, NEW hi \in Int, lo < hi
  PROVE  /\ Window(f, lo, hi) # <<>> /\ Atomic!Last(Window(f, lo, hi)) = f[hi - 1]
         /\ Atomic!Front(Window(f, lo, hi)) = Window(f, lo, hi - 1)
<1> DEFINE v == Window(f, lo, hi)
           w == Window(f, lo, hi - 1)
<1>1. v \in Seq(S) /\ Len(v) = hi - lo /\ w \in Seq(S) /\ Len(w) = hi - lo - 1
  <2>1. PICK h \in Int : h = hi - 1
    OBVIOUS
  <2>2. Window(f, lo, h) \in Seq(S) /\ Len(Window(f, lo, h)) = h - lo
    <3>1. lo <= h
      BY <2>1
    <3> QED
      BY <3>1, WindowFacts, Zenon
  <2>3. v \in Seq(S) /\ Len(v) = hi - lo
    <3>1. lo <= hi
      OBVIOUS
    <3> QED
      BY <3>1, WindowFacts, Zenon
  <2>4. w = Window(f, lo, h)
    BY <2>1
  <2> QED
    BY <2>1, <2>2, <2>3, <2>4
<1>2. \A k \in 1 .. hi - lo - 1 : w[k] = v[k]
  BY DEF Window
<1>3. v[hi - lo] = f[hi - 1]
  BY DEF Window
<1> HIDE DEF v, w
<1>4. v # <<>> /\ Atomic!Last(v) = f[hi - 1]
  BY <1>1, <1>3 DEF Atomic!Last
<1>5. /\ SubSeq(v, 1, hi - lo - 1) \in Seq(S) /\ Len(SubSeq(v, 1, hi - lo - 1)) = hi - lo - 1
      /\ \A k \in 1 .. hi - lo - 1 : SubSeq(v, 1, hi - lo - 1)[k] = v[k]
  BY <1>1
<1>6. w = SubSeq(v, 1, hi - lo - 1)
  BY <1>1, <1>2, <1>5, SeqEqual
<1>7. Atomic!Front(v) = w
  BY <1>1, <1>6 DEF Atomic!Front
<1> QED
  BY <1>4, <1>7 DEF v, w

LEMMA WindowSteal ==
  ASSUME NEW S, NEW f \in [Int -> S], NEW lo \in Int, NEW hi \in Int, lo < hi
  PROVE  /\ Window(f, lo, hi) # <<>> /\ Head(Window(f, lo, hi)) = f[lo]
         /\ Tail(Window(f, lo, hi)) = Window(f, lo + 1, hi)
<1> DEFINE v == Window(f, lo, hi)
           w == Window(f, lo + 1, hi)
<1>1. v \in Seq(S) /\ Len(v) = hi - lo /\ w \in Seq(S) /\ Len(w) = hi - lo - 1
  <2>1. lo + 1 \in Int /\ lo + 1 <= hi /\ hi - (lo + 1) = hi - lo - 1
    OBVIOUS
  <2>2. w \in Seq(S) /\ Len(w) = hi - (lo + 1)
    BY <2>1, WindowFacts
  <2> QED
    BY <2>1, <2>2, WindowFacts
<1>2. \A k \in 1 .. hi - lo - 1 : w[k] = v[k + 1]
  BY DEF Window
<1>3. v[1] = f[lo]
  BY DEF Window
<1> HIDE DEF v, w
<1>4. v # <<>> /\ Head(v) = f[lo]
  BY <1>1, <1>3
<1>5. /\ Tail(v) \in Seq(S) /\ Len(Tail(v)) = hi - lo - 1
      /\ \A k \in 1 .. hi - lo - 1 : Tail(v)[k] = v[k + 1]
  BY <1>1, <1>4
<1>6. w = Tail(v)
  BY <1>1, <1>2, <1>5, SeqEqual
<1> QED
  BY <1>4, <1>6 DEF v, w

\* What is in the deque, before and after a step.
LEMMA ContentsFacts ==
  ASSUME DequeInv, DequeInv'
  PROVE  /\ Contents = Window(Cells, top, Bottom) /\ Contents' = Window(Cells', top', Bottom')
         /\ Cells \in [Int -> Values] /\ Cells' \in [Int -> Values]
         /\ \A j \in Int : Cells[j] = get(buffer, j) /\ Cells'[j] = get(buffer, j)'
         /\ top \in Nat /\ top' \in Nat /\ bottom \in Int /\ bottom' \in Int
         /\ Bottom \in Int /\ Bottom' \in Int /\ top <= Bottom
<1>1. /\ top \in Nat /\ top' \in Nat /\ bottom \in Int /\ bottom' \in Int
      /\ Bottom \in Int /\ Bottom' \in Int /\ top <= Bottom
  BY DEF DequeInv, DequeTypes, RoomInv, Bottom
<1>2. \A j \in Int : Cells[j] = get(buffer, j) /\ Cells'[j] = get(buffer, j)'
  BY DEF Cells
<1>3. \A j \in Int : get(buffer, j) \in Values
  <2>1. buffer \in 0 .. buffer
    BY BufferFacts DEF DequeInv
  <2> QED
    BY <2>1, BufferFacts DEF DequeInv
<1>4. \A j \in Int : get(buffer, j)' \in Values
  <2>1. \A b \in Seq(BufferType), j \in Int : Len(b) >= 1 =>
          b[(Len(b) - 1) + 1].segment[j % b[(Len(b) - 1) + 1].size] \in Values
    <3> SUFFICES ASSUME NEW b \in Seq(BufferType), NEW j \in Int, Len(b) >= 1
                 PROVE  b[(Len(b) - 1) + 1].segment[j % b[(Len(b) - 1) + 1].size] \in Values
      OBVIOUS
    <3>1. (Len(b) - 1) + 1 \in 1 .. Len(b)
      OBVIOUS
    <3>2. PICK n \in Nat \ {0} :
            b[(Len(b) - 1) + 1] \in [size : {n}, segment : [0 .. n - 1 -> Values]]
      BY <3>1 DEF BufferType
    <3>3. j % n \in 0 .. n - 1
      OBVIOUS
    <3> QED
      BY <3>2, <3>3
  <2>2. buffers' \in Seq(BufferType) /\ Len(buffers') >= 1
    BY DEF DequeInv, DequeTypes
  <2> QED
    BY <2>1, <2>2 DEF get, size, buffer
<1>5. Cells \in [Int -> Values] /\ Cells' \in [Int -> Values]
  BY <1>3, <1>4 DEF Cells
<1>6. Contents = Window(Cells, top, Bottom) /\ Contents' = Window(Cells', top', Bottom')
  <2>1. \A k \in 1 .. Bottom - top : Cells[top + k - 1] = get(buffer, top + k - 1)
    BY <1>1, <1>2
  <2>2. \A k \in 1 .. Bottom' - top' : Cells'[top' + k - 1] = get(buffer, top + k - 1)'
    <3> SUFFICES ASSUME NEW k \in 1 .. Bottom' - top' PROVE Cells'[top' + k - 1] = get(buffer, top + k - 1)'
      OBVIOUS
    <3>1. PICK j \in Int : j = top' + k - 1
      <4>1. top' + k - 1 \in Int
        BY <1>1
      <4> QED
        BY <4>1
    <3>2. get(buffer, top + k - 1)' = get(buffer, j)'
      BY <3>1 DEF get, size, buffer
    <3> QED
      BY <1>2, <3>1, <3>2
  <2> QED
    BY <2>1, <2>2 DEF Contents, Window
<1> QED
  BY <1>1, <1>2, <1>5, <1>6

LEMMA ContentsKept ==
  ASSUME DequeInv, DequeInv', Kept
  PROVE  UNCHANGED <<Contents, claim>>
<1>1. Cells \in [Int -> Values] /\ Cells' \in [Int -> Values] /\ top \in Int /\ Bottom \in Int
  BY ContentsFacts
<1>2. \A j \in top .. Bottom - 1 : Cells[j] = Cells'[j]
  BY <1>1, ContentsFacts DEF Kept
<1>3. Window(Cells, top, Bottom) = Window(Cells', top, Bottom)
  BY <1>1, <1>2, WindowSame
<1> QED
  BY <1>3, ContentsFacts DEF Kept

\* Steps of the owner that leave the buffers alone.
LEMMA CellsKept ==
  ASSUME DequeInv, DequeInv', buffers' = buffers
  PROVE  Cells' = Cells
<1>1. \A j \in Int : get(buffer, j)' = get(buffer, j)
  BY SameBuffers
<1>2. Cells \in [Int -> Values] /\ Cells' \in [Int -> Values]
  BY ContentsFacts
<1>3. \A j \in Int : Cells'[j] = Cells[j]
  BY <1>1, ContentsFacts
<1> QED
  BY <1>2, <1>3

LEMMA PushIsPush ==
  ASSUME DequeInv, pushBottom, DequeInv'
  PROVE  Atomic!Push
<1>1. /\ top' = top /\ bottom' = bottom + 1 /\ buffers' = buffers /\ claim' = claim /\ pc[Owner] = "push_bottom"
      /\ DequeTypes /\ Goto(Owner, "idle") /\ "idle" \in OwnerLabels
  BY DEF pushBottom, StoreBottom, history, At, DequeInv, OwnerLabels
<1>2. Bottom = bottom /\ Bottom' = bottom + 1
  <2>1. pc'[Owner] = "idle"
    BY <1>1, OwnerMoves
  <2> QED
    BY <1>1, <2>1 DEF Bottom
<1>3. pushed + 1 \in Items /\ get(buffer, bottom) = pushed + 1
  BY <1>1, ChaseLevAssumption DEF DequeInv, DequeTypes, RoomInv, At, Items
<1>4. Cells \in [Int -> Values] /\ top \in Int /\ bottom \in Int /\ top <= bottom /\ Cells[bottom] = pushed + 1
  BY <1>2, <1>3, ContentsFacts
<1>5. Window(Cells, top, bottom + 1) = Append(Window(Cells, top, bottom), Cells[bottom])
  BY <1>4, WindowPush
<1>6. Contents' = Append(Contents, pushed + 1)
  BY <1>1, <1>2, <1>4, <1>5, ContentsFacts, CellsKept
<1> QED
  BY <1>1, <1>3, <1>6 DEF Atomic!Push

LEMMA PopIsPop ==
  ASSUME DequeInv, popTop \/ popCas, DequeInv'
  PROVE  Atomic!Pop \/ Kept
<1>1. /\ bottom' = bottom /\ buffers' = buffers /\ pc[Owner] \in {"pop_top", "pop_cas"}
      /\ bottom \in Int /\ DequeTypes /\ top \in Nat
  BY DEF popTop, popCas, deque, At, DequeInv, DequeTypes
<1>2. Bottom = bottom + 1
  BY <1>1 DEF Bottom
<1>3. /\ "pop_restore" \in OwnerLabels /\ "pop_cas" \in OwnerLabels /\ "pop_fit" \in OwnerLabels
  BY DEF OwnerLabels
<1>4. ASSUME top' = top, claim' = claim, NEW l \in {"pop_restore", "pop_cas"}, Goto(Owner, l) PROVE Kept
  <2>1. pc'[Owner] = l
    BY <1>1, <1>3, <1>4, OwnerMoves
  <2>2. Bottom' = Bottom
    BY <1>1, <1>2, <1>4, <2>1 DEF Bottom
  <2> QED
    BY <1>1, <1>4, <2>2, SameBuffers DEF Kept
<1>5. /\ Cells \in [Int -> Values] /\ Cells[bottom] = get(buffer, bottom) /\ Cells' = Cells
      /\ Contents = Window(Cells, top, Bottom) /\ Contents' = Window(Cells', top', Bottom')
  BY <1>1, ContentsFacts, CellsKept
<1>6. ASSUME top < Bottom
      PROVE  Contents # <<>> /\ Atomic!Last(Contents) = get(buffer, bottom)
             /\ Atomic!Front(Contents) = Window(Cells, top, bottom)
  <2>1. PICK hi \in Int : hi = Bottom /\ hi - 1 = bottom
    BY <1>1, <1>2
  <2>2. top \in Int /\ top < hi
    BY <1>1, <1>6, <2>1
  <2>3. /\ Window(Cells, top, hi) # <<>> /\ Atomic!Last(Window(Cells, top, hi)) = Cells[hi - 1]
        /\ Atomic!Front(Window(Cells, top, hi)) = Window(Cells, top, hi - 1)
    BY <1>5, <2>2, WindowPop
  <2> QED
    BY <1>5, <2>1, <2>3
<1>7. CASE popTop
  <2>1. top' = top
    BY <1>7 DEF popTop, deque
  <2>2. CASE bottom + 1 - top <= 1
    BY <1>1, <1>4, <1>7, <2>1, <2>2 DEF popTop, history
  <2>3. CASE bottom + 1 - top > 1
    <3>1. Goto(Owner, "pop_fit") /\ claim' = [claim EXCEPT ![Owner] = get(buffer, bottom)]
      BY <1>1, <1>7, <2>3 DEF popTop, Received
    <3>2. pc'[Owner] = "pop_fit"
      BY <1>1, <1>3, <3>1, OwnerMoves
    <3>3. Bottom' = bottom
      BY <1>1, <3>2 DEF Bottom
    <3>4. top < Bottom
      BY <1>1, <1>2, <2>3
    <3>5. Contents' = Window(Cells, top, bottom)
      BY <1>5, <2>1, <3>3
    <3> QED
      BY <1>6, <3>1, <3>4, <3>5 DEF Atomic!Pop
  <2> QED
    BY <1>1, <2>2, <2>3
<1>8. CASE popCas
  <2>1. Goto(Owner, "pop_restore") /\ pc[Owner] = "pop_cas"
    BY <1>8 DEF popCas, At
  <2>2. CASE top # t[Owner]
    BY <1>4, <1>8, <2>1, <2>2 DEF popCas, history
  <2>3. CASE top = t[Owner]
    <3>1. top' = top + 1 /\ claim' = [claim EXCEPT ![Owner] = get(buffer, t[Owner])] /\ t[Owner] = bottom
      BY <1>8, <2>1, <2>3 DEF popCas, Received, DequeInv, RoomInv, At
    <3>2. pc'[Owner] = "pop_restore"
      BY <1>1, <1>3, <2>1, OwnerMoves
    <3>3. Bottom' = bottom + 1
      BY <1>1, <3>2 DEF Bottom
    <3>4. top < Bottom
      BY <1>1, <1>2, <2>3, <3>1
    <3>5. Contents' = Window(Cells, top, bottom)
      <4>1. Contents' = Window(Cells, top + 1, top + 1)
        BY <1>5, <2>3, <3>1, <3>3
      <4>2. Window(Cells, top + 1, top + 1) = <<>> /\ Window(Cells, top, top) = <<>>
        <5>1. 1 .. (top + 1) - (top + 1) = {} /\ 1 .. top - top = {}
          BY <1>1
        <5> QED
          BY <5>1 DEF Window
      <4> QED
        BY <2>3, <3>1, <4>1, <4>2
    <3> QED
      BY <1>6, <3>1, <3>4, <3>5 DEF Atomic!Pop
  <2> QED
    BY <2>2, <2>3
<1> QED
  BY <1>7, <1>8

LEMMA StealIsSteal ==
  ASSUME DequeInv, NEW s \in Stealers, Step(s), DequeInv'
  PROVE  Atomic!Steal(s) \/ Kept
<1>1. /\ bottom' = bottom /\ buffers' = buffers /\ bottom \in Int /\ top \in Nat
  BY DEF Step, register_thread, stealBegin, stealTop, stealBottom, stealBuffer, stealCas, stealGet,
     stealEnd, stealLast, stealId, deque, DequeInv, DequeTypes
<1>2. \E l : Goto(s, l)
  BY DEF Step, register_thread, stealBegin, stealTop, stealBottom, stealBuffer, stealCas, stealGet,
     stealEnd, stealLast, stealId
<1>3. Bottom' = Bottom
  <2>1. pc'[Owner] = pc[Owner]
    BY <1>2, ChaseLevAssumption DEF Goto, DequeInv, DequeTypes, Actors
  <2> QED
    BY <1>1, <2>1 DEF Bottom
<1>4. CASE UNCHANGED <<top, claim>>
  BY <1>1, <1>3, <1>4, SameBuffers DEF Kept
<1>5. CASE stealCas(s) /\ top = t[s]
  <2>1. top' = top + 1 /\ claim' = [claim EXCEPT ![s] = get(buffer, top)] /\ pc[s] = "steal_cas"
    BY <1>5 DEF stealCas, At
  <2>2. top < Bottom
    BY <1>5, <2>1 DEF DequeInv, ThiefInv
  <2>3. /\ Cells \in [Int -> Values] /\ Cells[top] = get(buffer, top) /\ Cells' = Cells
        /\ Contents = Window(Cells, top, Bottom) /\ Contents' = Window(Cells', top', Bottom')
        /\ Bottom \in Int
    BY <1>1, ContentsFacts, CellsKept
  <2>4. /\ Contents # <<>> /\ Head(Contents) = get(buffer, top)
        /\ Tail(Contents) = Window(Cells, top + 1, Bottom)
    <3>1. top \in Int
      BY <1>1
    <3>2. /\ Window(Cells, top, Bottom) # <<>> /\ Head(Window(Cells, top, Bottom)) = Cells[top]
          /\ Tail(Window(Cells, top, Bottom)) = Window(Cells, top + 1, Bottom)
      BY <2>2, <2>3, <3>1, WindowSteal
    <3> QED
      BY <2>3, <3>2
  <2> QED
    BY <1>3, <2>1, <2>3, <2>4 DEF Atomic!Steal
<1>6. UNCHANGED <<top, claim>> \/ (stealCas(s) /\ top = t[s])
  BY DEF Step, register_thread, stealBegin, stealTop, stealBottom, stealBuffer, stealCas, stealGet,
     stealEnd, stealLast, stealId, deque, history
<1> QED
  BY <1>4, <1>5, <1>6

\* The work-stealing deque implements the atomic one, for any number of thieves,
\* items and sizes: whatever the pushes, pops, steals and resizes do in between,
\* every operation takes effect at one point and every item goes to one thread.
THEOREM ChaseLevRefinement == Spec => ImplementsDeque
<1>1. ASSUME Init PROVE Atomic!Init
  <2>1. pc[Owner] = "idle" /\ top = 0 /\ bottom = 0
    BY <1>1, ChaseLevAssumption DEF Init, Actors
  <2>2. Bottom = 0
    BY <2>1 DEF Bottom
  <2>3. Contents = <<>>
    <3>1. 1 .. Bottom - top = {}
      BY <2>1, <2>2
    <3> QED
      BY <3>1 DEF Contents
  <2> QED
    BY <1>1, <2>3 DEF Init, Atomic!Init, Actors
<1>2. ASSUME DequeInv, DequeInv', [Next]_vars PROVE [Atomic!Next]_<<Contents, claim>>
  <2>1. CASE OwnerStep
    <3>1. CASE pushBottom
      BY <1>2, <3>1, PushIsPush DEF Atomic!Next
    <3>2. CASE popTop \/ popCas
      BY <1>2, <3>2, PopIsPop, ContentsKept DEF Atomic!Next
    <3>3. CASE ~pushBottom /\ ~popTop /\ ~popCas
      <4>1. Kept
        BY <1>2, <2>1, <3>3, OwnerSilent, PushFits, PushPuts, PopFits, DequeReclaims DEF OwnerStep
      <4> QED
        BY <1>2, <4>1, ContentsKept
    <3> QED
      BY <3>1, <3>2, <3>3
  <2>2. ASSUME NEW s \in Stealers, Step(s) PROVE [Atomic!Next]_<<Contents, claim>>
    BY <1>2, <2>2, StealIsSteal, ContentsKept DEF Atomic!Next
  <2>3. CASE UNCHANGED vars \/ \E x \in Actors : drain(x)
    <3>1. UNCHANGED <<top, bottom, pushed, buffers, t, a, pc, claim>>
      BY <2>3 DEF vars, deque, history, drain
    <3> QED
      BY <1>2, <3>1, DequeSame, ContentsKept
  <2> QED
    BY <1>2, <2>1, <2>2, <2>3 DEF Next
<1> QED
  BY <1>1, <1>2, InitItems, NextItems, PTL DEF Spec, ItemsInv, ImplementsDeque, Atomic!Spec
==============================================================================
