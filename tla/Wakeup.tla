-------------------------------- MODULE Wakeup --------------------------------
(***************************************************************************)
(* What Scheduler takes an event for: threads go to sleep, a signal wakes  *)
(* all that sleep, and any thread may wake by itself.                      *)
(***************************************************************************)
EXTENDS Integers

CONSTANT Threads

VARIABLES
  asleep,
  signals   \* the number of signals

vars == <<asleep, signals>>

Init == asleep = {} /\ signals = 0

Sleep(t) == t \notin asleep /\ asleep' = asleep \cup {t} /\ UNCHANGED signals

Wake(t) == t \in asleep /\ asleep' = asleep \ {t} /\ UNCHANGED signals

Broadcast == asleep' = {} /\ signals' = signals + 1

Next == Broadcast \/ \E t \in Threads : Sleep(t) \/ Wake(t)

Spec == Init /\ [][Next]_vars
===============================================================================
