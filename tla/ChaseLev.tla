------------------------------- MODULE ChaseLev ------------------------------
(***************************************************************************)
(* The work-stealing deque of container/spmc_queue.hh: a Deque with its    *)
(* Buffers and its Reclaimer, the Worker end of one thread and the Stealer *)
(* ends of the others, one action per access to the shared atomics.  The   *)
(* n-th push pushes item n.                                                *)
(*                                                                         *)
(* Memory is that of x86, the only target of the repository: a store waits *)
(* in the store buffer of its thread, others see the stores of a thread in *)
(* their order, and a fence or a CAS (on top) waits until all are seen.    *)
(* The copies and puts into a segment are taken to be seen at once: a thief*)
(* looks at them only after it has seen the later store of buffer or of    *)
(* bottom.                                                                 *)
(*                                                                         *)
(* bottom, buffer and unlinked are written by the owner alone: its locals b*)
(* and a are read from them.                                               *)
(***************************************************************************)
EXTENDS Integers, Sequences, FiniteSets, FiniteSetsExt

CONSTANTS
  Owner, Stealers,
  NoItem,             \* nothing popped or stolen yet
  Garbage,            \* what a segment holds where nothing was put
  Null,               \* no buffer is unlinked
  initial_size,       \* 1 << log_initial_size
  MaxItems,           \* bound on the items that are pushed
  MaxStores           \* places of a store buffer

ASSUME ChaseLevAssumption ==
  /\ Owner \notin Stealers /\ Null \notin Nat
  /\ initial_size \in Nat \ {0} /\ MaxItems \in Nat
  /\ MaxStores \in Nat \ {0}

VARIABLES
  top,
  bottom,        \* as the owner has stored it
  stores,        \* the state of what a thread writes, after each of its stores:
                 \* first the one that the other threads see, last its own
  buffers,       \* every buffer ever made, by id + 1: size and segment
  unlinked,      \* id of the oldest buffer not deleted, Null until the first resize
  id_list,       \* the registered stealers, last one first
  pushed,        \* items pushed so far
  pc, t,         \* where the owner and every stealer are, their local t
  a,             \* the id of the buffer a stealer has loaded
  min_id, head,  \* the locals of reclaim_buffers: head is the rest of the list
  out,           \* out_ref: what a pop or a steal returned last
  claim,         \* history: the item that left the deque in that operation
  outdated,      \* history: a stealer has not seen the owner's last store of buffer
  misread        \* history: the id of a deleted buffer was read

deque == <<top, bottom, buffers, unlinked, pushed>>
reclaimer == <<id_list, min_id, head>>
history == <<out, claim, outdated, misread>>
vars == <<deque, stores, pc, t, a, reclaimer, history>>

Items == 1 .. MaxItems
Actors == Stealers \cup {Owner}

\* The buffer that was stored last.
buffer == Len(buffers) - 1

\* 1 << log_size, which is stored instead of log_size.
size(i) == buffers[i + 1].size
get(i, k) == buffers[i + 1].segment[k % size(i)]
Deleted(i) == unlinked # Null /\ i < unlinked

NewBuffer(n) == [size |-> n, segment |-> [k \in 0 .. n - 1 |-> Garbage]]

Init ==
  /\ top = 0 /\ bottom = 0
  /\ buffers = <<NewBuffer(initial_size)>>
  /\ unlinked = Null
  /\ id_list = <<>>
  /\ stores = [x \in Actors |-> IF x = Owner
       THEN <<[bottom |-> 0, buffer |-> 0]>>
       ELSE <<[was_idle |-> TRUE, id_last_used |-> 0]>>]
  /\ pushed = 0
  /\ pc = [x \in Actors |-> IF x = Owner THEN "idle" ELSE "unregistered"]
  /\ t = [x \in Actors |-> 0]
  /\ a = [s \in Stealers |-> 0]
  /\ min_id = 0 /\ head = <<>>
  /\ out = [x \in Actors |-> NoItem]
  /\ claim = [x \in Actors |-> NoItem]
  /\ outdated = [s \in Stealers |-> FALSE]
  /\ misread = FALSE

Goto(x, l) == pc' = [pc EXCEPT ![x] = l]
At(x, l) == pc[x] = l
-----------------------------------------------------------------------------
(***************************************************************************)
(* The store buffers.                                                      *)
(***************************************************************************)
Seen(x) == stores[x][1]
Latest(x) == stores[x][Len(stores[x])]

\* A full store buffer makes its thread wait.
Store(x, state) ==
  /\ Len(stores[x]) <= MaxStores
  /\ stores' = [stores EXCEPT ![x] = Append(@, state)]

\* The fences between a store and a load, and every CAS, wait for this.
Fenced(x) == Len(stores[x]) = 1

drain(x) ==
  /\ ~Fenced(x)
  /\ stores' = [stores EXCEPT ![x] = Tail(@)]
  /\ UNCHANGED <<deque, pc, t, a, reclaimer, history>>
-----------------------------------------------------------------------------
(***************************************************************************)
(* The owner.                                                              *)
(***************************************************************************)
StoreBottom(b) ==
  /\ bottom' = b
  /\ Store(Owner, [bottom |-> b, buffer |-> buffer])

\* A buffer of another size takes the items from lo up to hi and is stored.
\* The copied places are written by the owner alone.
resize(hi, lo, n) ==
  LET Copied(k) == {j \in lo .. hi - 1 : j % n = k} IN
  /\ buffers' = Append(buffers, [NewBuffer(n) EXCEPT !.segment =
       [k \in 0 .. n - 1 |->
          IF Copied(k) = {} THEN Garbage ELSE get(buffer, Max(Copied(k)))]])
  /\ Store(Owner, [bottom |-> bottom, buffer |-> buffer + 1])
  /\ unlinked' = IF unlinked = Null THEN buffer ELSE unlinked

\* reclaim_buffers begins; without an unlinked buffer it is not called.
StartReclaim(next, reclaim) ==
  /\ IF unlinked' = Null THEN Goto(Owner, next) ELSE Goto(Owner, reclaim)
  /\ min_id' = Len(buffers') - 1
  /\ head' = id_list
  /\ UNCHANGED id_list

pushTop ==
  /\ At(Owner, "idle") /\ pushed < MaxItems
  /\ t' = [t EXCEPT ![Owner] = top]
  /\ Goto(Owner, "push_fit")
  /\ UNCHANGED <<deque, stores, a, reclaimer, history>>

FullNoSpare == bottom - t[Owner] >= size(buffer)

\* One place of the segment is always left unused.
Full == bottom - t[Owner] >= size(buffer) - 1

pushFit ==
  /\ At(Owner, "push_fit")
  /\ IF Full THEN resize(bottom, t[Owner], 2 * size(buffer)) ELSE UNCHANGED <<buffers, stores, unlinked>>
  /\ StartReclaim("push_put", "push_reclaim")
  /\ UNCHANGED <<top, bottom, pushed, t, a, history>>

pushPut ==
  /\ At(Owner, "push_put")
  /\ buffers' = [buffers EXCEPT
       ![buffer + 1].segment[bottom % size(buffer)] = pushed + 1]
  /\ Goto(Owner, "push_bottom")
  /\ UNCHANGED <<top, bottom, unlinked, pushed, stores, t, a, reclaimer, history>>

pushBottom ==
  /\ At(Owner, "push_bottom")
  /\ StoreBottom(bottom + 1)
  /\ pushed' = pushed + 1
  /\ Goto(Owner, "idle")
  /\ UNCHANGED <<top, buffers, unlinked, t, a, reclaimer, history>>

popBottom ==
  /\ At(Owner, "idle")
  /\ StoreBottom(bottom - 1)
  /\ Goto(Owner, "pop_top")
  /\ UNCHANGED <<top, buffers, unlinked, pushed, t, a, reclaimer, history>>

Received(i) ==
  /\ out' = [out EXCEPT ![Owner] = i]
  /\ claim' = [claim EXCEPT ![Owner] = i]
  /\ UNCHANGED <<outdated, misread>>

popTopUnfenced ==
  LET left == bottom + 1 - top IN
  /\ At(Owner, "pop_top")
  /\ t' = [t EXCEPT ![Owner] = top]
  /\ \/ left <= 0 /\ Goto(Owner, "pop_restore") /\ UNCHANGED history
     \/ left = 1 /\ Goto(Owner, "pop_cas") /\ UNCHANGED history
     \/ left > 1 /\ Goto(Owner, "pop_fit") /\ Received(get(buffer, bottom))
  /\ UNCHANGED <<deque, stores, a, reclaimer>>

\* With one item left the owner races against the thieves, with more it takes
\* the lowest one without a CAS.
popTop ==
  LET left == bottom + 1 - top IN
  /\ At(Owner, "pop_top") /\ Fenced(Owner)
  /\ t' = [t EXCEPT ![Owner] = top]
  /\ \/ left <= 0 /\ Goto(Owner, "pop_restore") /\ UNCHANGED history
     \/ left = 1 /\ Goto(Owner, "pop_cas") /\ UNCHANGED history
     \/ left > 1 /\ Goto(Owner, "pop_fit") /\ Received(get(buffer, bottom))
  /\ UNCHANGED <<deque, stores, a, reclaimer>>

popCas ==
  /\ At(Owner, "pop_cas") /\ Fenced(Owner)
  /\ IF top = t[Owner] THEN top' = top + 1 /\ Received(get(buffer, t[Owner]))
                       ELSE UNCHANGED <<top, history>>
  /\ Goto(Owner, "pop_restore")
  /\ UNCHANGED <<bottom, buffers, unlinked, pushed, stores, t, a, reclaimer>>

popRestore ==
  /\ At(Owner, "pop_restore")
  /\ StoreBottom(bottom + 1)
  /\ Goto(Owner, "idle")
  /\ UNCHANGED <<top, buffers, unlinked, pushed, t, a, reclaimer, history>>

Sparse == LET left == bottom + 1 - t[Owner] IN
          left <= size(buffer) \div 3 /\ left > initial_size

popFit ==
  /\ At(Owner, "pop_fit")
  /\ IF Sparse THEN resize(bottom + 1, t[Owner], size(buffer) \div 2)
               ELSE UNCHANGED <<buffers, stores, unlinked>>
  /\ StartReclaim("idle", "pop_reclaim")
  /\ UNCHANGED <<top, bottom, pushed, t, a, history>>

Reclaiming == pc[Owner] \in {"push_reclaim", "pop_reclaim"}

\* reclaim_buffers looks at one stealer: at its flag, and at its id if it is
\* not idle.
reclaimIdle ==
  /\ Reclaiming /\ head # <<>>
  /\ IF Seen(Head(head)).was_idle THEN head' = Tail(head) /\ UNCHANGED pc
     ELSE UNCHANGED head
          /\ Goto(Owner, IF At(Owner, "push_reclaim") THEN "push_id" ELSE "pop_id")
  /\ UNCHANGED <<deque, stores, t, a, id_list, min_id, history>>

reclaimId ==
  /\ pc[Owner] \in {"push_id", "pop_id"}
  /\ min_id' = Min({min_id, Seen(Head(head)).id_last_used})
  /\ head' = Tail(head)
  /\ Goto(Owner, IF At(Owner, "push_id") THEN "push_reclaim" ELSE "pop_reclaim")
  /\ UNCHANGED <<deque, stores, t, a, id_list, history>>

\* All unlinked buffers up to min_id are deleted.
reclaimDelete ==
  /\ Reclaiming /\ head = <<>>
  /\ unlinked' = Max({unlinked, min_id})
  /\ Goto(Owner, IF At(Owner, "push_reclaim") THEN "push_put" ELSE "idle")
  /\ UNCHANGED <<top, bottom, buffers, pushed, stores, t, a, reclaimer, history>>
-----------------------------------------------------------------------------
(***************************************************************************)
(* A stealer.                                                              *)
(***************************************************************************)
\* The threads register when they start; the owner may already be at work.
register_thread(s) ==
  /\ At(s, "unregistered")
  /\ id_list' = <<s>> \o id_list
  /\ Goto(s, "idle")
  /\ UNCHANGED <<deque, stores, t, a, min_id, head, history>>

stealBegin(s) ==
  /\ At(s, "idle")
  /\ Store(s, [Latest(s) EXCEPT !.was_idle = FALSE])
  /\ Goto(s, "steal_top")
  /\ UNCHANGED <<deque, t, a, reclaimer, history>>

stealTop(s) ==
  /\ At(s, "steal_top")
  /\ t' = [t EXCEPT ![s] = top]
  /\ Goto(s, "steal_bottom")
  /\ UNCHANGED <<deque, stores, a, reclaimer, history>>

stealBottomUnfenced(s) ==
  /\ At(s, "steal_bottom")
  /\ Goto(s, IF Seen(Owner).bottom > t[s] THEN "steal_buffer" ELSE "steal_end")
  /\ UNCHANGED <<deque, stores, t, a, reclaimer, history>>

stealBottom(s) ==
  /\ At(s, "steal_bottom") /\ Fenced(s)
  /\ Goto(s, IF Seen(Owner).bottom > t[s] THEN "steal_buffer" ELSE "steal_end")
  /\ UNCHANGED <<deque, stores, t, a, reclaimer, history>>

stealBuffer(s) ==
  /\ At(s, "steal_buffer")
  /\ a' = [a EXCEPT ![s] = Seen(Owner).buffer]
  /\ outdated' = [outdated EXCEPT ![s] = Seen(Owner).buffer # buffer]
  /\ Goto(s, "steal_cas")
  /\ UNCHANGED <<deque, stores, t, reclaimer, out, claim, misread>>

\* The item at the top leaves the deque with the CAS, but it is read later.
stealCas(s) ==
  /\ At(s, "steal_cas") /\ Fenced(s)
  /\ \/ /\ top = t[s]
        /\ top' = top + 1
        /\ claim' = [claim EXCEPT ![s] = get(buffer, top)]
        /\ Goto(s, "steal_get")
     \/ /\ top # t[s]
        /\ Goto(s, "steal_end")
        /\ UNCHANGED <<top, claim>>
  /\ UNCHANGED <<bottom, buffers, unlinked, pushed, stores, t, a, reclaimer, out, outdated, misread>>

stealGet(s) ==
  /\ At(s, "steal_get")
  /\ \E i \in IF Deleted(a[s]) THEN Items \cup {Garbage} ELSE {get(a[s], t[s])} :
       out' = [out EXCEPT ![s] = i]
  /\ Goto(s, "steal_end")
  /\ UNCHANGED <<deque, stores, t, a, reclaimer, claim, outdated, misread>>

stealEnd(s) ==
  /\ At(s, "steal_end")
  /\ Store(s, [Latest(s) EXCEPT !.was_idle = TRUE])
  /\ Goto(s, "steal_last")
  /\ UNCHANGED <<deque, t, a, reclaimer, history>>

stealLast(s) ==
  /\ At(s, "steal_last")
  /\ a' = [a EXCEPT ![s] = Seen(Owner).buffer]
  /\ Goto(s, "steal_id")
  /\ UNCHANGED <<deque, stores, t, reclaimer, history>>

\* b->id(): any number if b has been deleted in the meantime.
stealId(s) ==
  /\ At(s, "steal_id")
  /\ \E i \in IF Deleted(a[s]) THEN 0 .. Len(buffers) ELSE {a[s]} :
       Store(s, [Latest(s) EXCEPT !.id_last_used = i])
  /\ misread' = (misread \/ Deleted(a[s]))
  /\ Goto(s, "idle")
  /\ UNCHANGED <<deque, t, a, reclaimer, out, claim, outdated>>

OwnerStep == \/ pushTop \/ pushFit \/ pushPut \/ pushBottom
             \/ popBottom \/ popTop \/ popCas \/ popRestore \/ popFit
             \/ reclaimIdle \/ reclaimId \/ reclaimDelete

Step(s) == \/ register_thread(s) \/ stealBegin(s) \/ stealTop(s) \/ stealBottom(s)
           \/ stealBuffer(s) \/ stealCas(s) \/ stealGet(s)
           \/ stealEnd(s) \/ stealLast(s) \/ stealId(s)

Next == OwnerStep \/ (\E s \in Stealers : Step(s)) \/ \E x \in Actors : drain(x)

Spec == Init /\ [][Next]_vars
-----------------------------------------------------------------------------
(***************************************************************************)
(* Properties.                                                             *)
(***************************************************************************)
\* While a pop has not decided, the item that bottom has already left out is
\* still in the deque.
Bottom == IF pc[Owner] \in {"pop_top", "pop_cas", "pop_restore"}
          THEN bottom + 1 ELSE bottom

Contents == [k \in 1 .. Bottom - top |-> get(buffer, top + k - 1)]

\* The deque implements the atomic one: no interleaving of push, pop, steal and
\* resize loses an item of the deque or lets two threads claim it.
Atomic == INSTANCE WorkDeque WITH items <- Contents, got <- claim
ImplementsDeque == Atomic!Spec

Stealing(s) == pc[s] \in {"steal_cas", "steal_get"}

\* reclaim_buffers does not delete the buffer that a thief is about to read its
\* item from if the thief has loaded the one that the owner had stored last, as
\* long as no id of a deleted buffer was taken for an id.
LatestBufferAlive ==
  misread \/ \A s \in Stealers : Stealing(s) /\ ~outdated[s] => ~Deleted(a[s])

\* "We use memory_order_release to synchronize with the read by the reclaimer": it
\* deletes no buffer that a thief is about to read its item from.
StolenBufferAlive ==
  misread \/ \A s \in Stealers : Stealing(s) => ~Deleted(a[s])

\* The place that is left unused keeps the item of a thief that has won its CAS
\* and has not read yet, until a second item is taken from the top.
SparePlace ==
  \A s \in Stealers : At(s, "steal_get") /\ top = t[s] + 1 /\ ~Deleted(a[s]) =>
    get(a[s], t[s]) = claim[s]

\* task.hh: "execute_and_cleanup() must get called exactly once": a steal hands
\* out the item that it removed from the deque (deleted buffers aside).
StealReturnsClaim ==
  misread \/ \A s \in Stealers : At(s, "steal_end") => out[s] = claim[s]

\* "We reclaim all buffers with id strictly less than the minimum of the ids
\* seen by the stealers": no stealer reads the id of a deleted buffer.
NoDeletedRead == ~misread
==============================================================================
