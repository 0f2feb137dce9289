-------------------------------- MODULE FIFO ---------------------------------
(***************************************************************************)
(* What the queues of container/ promise: a bounded first-in first-out     *)
(* queue whose operations are atomic.  A thread holds at most one item; it *)
(* puts the item it holds, or takes one.  An operation that finds the queue*)
(* full or empty changes nothing.                                          *)
(***************************************************************************)
EXTENDS Integers, Sequences

CONSTANTS
  Threads,
  Items,
  NoItem,        \* "this thread holds no item"
  Capacity,
  InitialItems,  \* the contents of the queue after the single-threaded set-up
  InitialHold    \* what the threads hold then

VARIABLES
  items,  \* the queue
  hold    \* the item every thread holds

Init == items = InitialItems /\ hold = InitialHold

Put(t) == /\ hold[t] # NoItem
          /\ Len(items) < Capacity
          /\ items' = Append(items, hold[t])
          /\ hold' = [hold EXCEPT ![t] = NoItem]

Take(t) == /\ hold[t] = NoItem
           /\ items # <<>>
           /\ hold' = [hold EXCEPT ![t] = Head(items)]
           /\ items' = Tail(items)

Next == \E t \in Threads : Put(t) \/ Take(t)

Spec == Init /\ [][Next]_<<items, hold>>
==============================================================================
