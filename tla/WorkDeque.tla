------------------------------ MODULE WorkDeque ------------------------------
(***************************************************************************)
(* What a work-stealing deque promises: its owner pushes and pops at the   *)
(* bottom, every thief steals at the top, and every operation is atomic, so*)
(* that each item goes to exactly one of them.                             *)
(***************************************************************************)
EXTENDS Integers, Sequences, SequencesExt

CONSTANTS Owner, Stealers, Items, NoItem

VARIABLES
  items,  \* from the top to the bottom
  got     \* the item that the owner and every thief received last

Init == /\ items = <<>>
        /\ got = [x \in Stealers \cup {Owner} |-> NoItem]

Push == \E i \in Items : items' = Append(items, i) /\ UNCHANGED got

Pop == /\ items # <<>>
       /\ got' = [got EXCEPT ![Owner] = Last(items)]
       /\ items' = Front(items)

Steal(s) == /\ items # <<>>
            /\ got' = [got EXCEPT ![s] = Head(items)]
            /\ items' = Tail(items)

Next == Push \/ Pop \/ \E s \in Stealers : Steal(s)

Spec == Init /\ [][Next]_<<items, got>>
==============================================================================
